---- MODULE Spec2Model ----
(***************************************************************************)
(* The six components of CD-List (realtime-subtitles,                      *)
(* youtube-audio-downloader, the two media-downloader variants and the two *)
(* thumbnail-downloader variants), each a DataCollector / Run pair called  *)
(* by a host.                                                              *)
(*                                                                         *)
(* A JavaScript string is a sequence of one-character strings, so that     *)
(* includes, match, lastIndexOf, replace and the URL parser are computed   *)
(* character by character as the code computes them.  A fixed text that no *)
(* code inspects (a message) is a one-element sequence holding the text.   *)
(* undefined and null are the one-element sequences Undefined and Null,    *)
(* which no string equals.  A property holding an object or absent is a    *)
(* sequence of at most one record.                                         *)
(***************************************************************************)
EXTENDS Integers, Sequences, FiniteSets, TLC

VARIABLES
  comp,       \* the component the host drives
  hostUrl,    \* the currentUrl the host hands to DataCollector
  dom,        \* the DOM the page-scraping thumbnail variant reads
  clock,      \* Date.now()
  collected,  \* what DataCollector returned (CollectedData)
  runArg,     \* the argument of the Run in progress
  pc,         \* idle, collected, awaitPrimary, awaitFallback, done, threw
  requests,   \* the URLs fetched by the Run in progress, in order
  responses,  \* the responses to them, in order
  caught,     \* the messages of the errors caught inside the Run, in order
  domReads,   \* number of uses of window/document by the component
  anchor,     \* the <a> elements Run of the page-scraping variant created
  opened,     \* window.open calls: the URLs opened
  returned,   \* the ActionResult Run returned
  other       \* a second invocation, set aside while this one runs

vars == <<comp, hostUrl, dom, clock, collected, runArg, pc, requests, responses,
          caught, domReads, anchor, opened, returned, other>>

----------------------------------------------------------------------------
(* JavaScript values and string operations                                 *)

Undefined == <<"undefined">>
Null == <<"null">>

\* !!v for a string, undefined or null
Truthy(v) == v # Undefined /\ v # Null /\ v # <<>>

\* a || b
Or(a, b) == IF Truthy(a) THEN a ELSE b

MinOf(S) == CHOOSE x \in S : \A y \in S : x <= y
MaxOf(S) == CHOOSE x \in S : \A y \in S : x >= y

\* sub occurs in s at the 1-based position i
StartsAt(s, i, sub) ==
  /\ i >= 1
  /\ i + Len(sub) - 1 <= Len(s)
  /\ SubSeq(s, i, i + Len(sub) - 1) = sub

\* String.prototype.includes
includes(s, sub) == \E i \in 1..(Len(s) + 1) : StartsAt(s, i, sub)

\* String.prototype.indexOf (0-based, -1 when absent)
indexOf(s, sub) ==
  IF includes(s, sub)
  THEN MinOf({i \in 1..(Len(s) + 1) : StartsAt(s, i, sub)}) - 1
  ELSE -1

\* String.prototype.lastIndexOf (0-based, -1 when absent)
lastIndexOf(s, sub) ==
  IF includes(s, sub)
  THEN MaxOf({i \in 1..(Len(s) + 1) : StartsAt(s, i, sub)}) - 1
  ELSE -1

\* String.prototype.substring(from) and substring(from, to), 0-based
substring(s, from) == SubSeq(s, from + 1, Len(s))
substring2(s, from, to) == SubSeq(s, from + 1, IF to < Len(s) THEN to ELSE Len(s))

\* String.prototype.endsWith
endsWith(s, suffix) == StartsAt(s, Len(s) - Len(suffix) + 1, suffix)

\* String.prototype.replace with a string pattern: the first occurrence only
replace(s, pat, rep) ==
  LET i == indexOf(s, pat)
  IN IF i = -1 THEN s
     ELSE SubSeq(s, 1, i) \o rep \o SubSeq(s, i + Len(pat) + 1, Len(s))

UPPER == <<"A","B","C","D","E","F","G","H","I","J","K","L","M",
           "N","O","P","Q","R","S","T","U","V","W","X","Y","Z">>
LOWER == <<"a","b","c","d","e","f","g","h","i","j","k","l","m",
           "n","o","p","q","r","s","t","u","v","w","x","y","z">>
DIGITS == <<"0","1","2","3","4","5","6","7","8","9">>

Range(f) == {f[i] : i \in DOMAIN f}

\* the lower-case letter of each upper-case letter, and the reverse
LowerOf == [c \in Range(UPPER) |-> LOWER[CHOOSE k \in DOMAIN UPPER : UPPER[k] = c]]
UpperOf == [c \in Range(LOWER) |-> UPPER[CHOOSE k \in DOMAIN LOWER : LOWER[k] = c]]

\* String.prototype.toLowerCase / toUpperCase
toLowerCase(s) == [i \in 1..Len(s) |-> IF s[i] \in DOMAIN LowerOf THEN LowerOf[s[i]] ELSE s[i]]
toUpperCase(s) == [i \in 1..Len(s) |-> IF s[i] \in DOMAIN UpperOf THEN UpperOf[s[i]] ELSE s[i]]

\* Array.prototype.join
RECURSIVE join(_, _)
join(arr, sep) ==
  IF Len(arr) = 0 THEN <<>>
  ELSE IF Len(arr) = 1 THEN arr[1]
  ELSE arr[1] \o sep \o join(Tail(arr), sep)

(* Regular expressions.  A character class is [neg, chars]; a pattern      *)
(* prefix is a sequence of classes; the patterns of the code are a prefix  *)
(* followed by one capturing group (class)+ , matched at the leftmost      *)
(* position and greedily, as RegExp does.                                  *)
Class(chars) == [neg |-> FALSE, chars |-> chars]
NotClass(chars) == [neg |-> TRUE, chars |-> chars]
InClass(c, cls) == IF cls.neg THEN c \notin cls.chars ELSE c \in cls.chars
Literal(s) == [k \in 1..Len(s) |-> Class({s[k]})]

MatchAt(s, i, pat) ==
  /\ i + Len(pat) - 1 <= Len(s)
  /\ \A k \in 1..Len(pat) : InClass(s[i + k - 1], pat[k])

\* the last position of the longest run of cls characters starting at i
RECURSIVE RunEnd(_, _, _)
RunEnd(s, i, cls) ==
  IF i <= Len(s) /\ InClass(s[i], cls) THEN RunEnd(s, i + 1, cls) ELSE i - 1

\* s.match(/<pat>(<cls>+)/): the captured group, or Null when there is no match
matchGroup(s, pat, cls) ==
  LET starts == {i \in 1..Len(s) :
                   /\ MatchAt(s, i, pat)
                   /\ i + Len(pat) <= Len(s)
                   /\ InClass(s[i + Len(pat)], cls)}
  IN IF starts = {} THEN Null
     ELSE LET b == MinOf(starts) + Len(pat)
          IN SubSeq(s, b, RunEnd(s, b, cls))

----------------------------------------------------------------------------
(* The URL constructor of the platform, for the inputs of this model:      *)
(* absolute http(s) URLs without userinfo, percent-escapes or dot segments *)

s_https == <<"h","t","t","p","s",":","/","/">>
s_http == <<"h","t","t","p",":","/","/">>

SchemeLen(u) ==
  IF StartsAt(u, 1, s_https) THEN Len(s_https)
  ELSE IF StartsAt(u, 1, s_http) THEN Len(s_http)
  ELSE 0

\* the end of the host: the position before the first of / ? # :
HostEnd(u) == RunEnd(u, SchemeLen(u) + 1, NotClass({"/", "?", "#", ":"}))

\* new URL(u) does not throw
URLValid(u) == SchemeLen(u) > 0 /\ HostEnd(u) > SchemeLen(u)

\* new URL(u).hostname
URLHostname(u) == toLowerCase(SubSeq(u, SchemeLen(u) + 1, HostEnd(u)))

\* new URL(u).pathname
URLPathname(u) ==
  LET b == RunEnd(u, HostEnd(u) + 1, NotClass({"/", "?", "#"})) + 1
      e == RunEnd(u, b, NotClass({"?", "#"}))
  IN IF b <= Len(u) /\ u[b] = "/" THEN SubSeq(u, b, e) ELSE <<"/">>

----------------------------------------------------------------------------
(* Texts of the code whose characters the code inspects                    *)

s_youtube_com == <<"y","o","u","t","u","b","e",".","c","o","m">>
s_youtu_be == <<"y","o","u","t","u",".","b","e">>
s_vimeo_com == <<"v","i","m","e","o",".","c","o","m">>
s_dailymotion_com == <<"d","a","i","l","y","m","o","t","i","o","n",".","c","o","m">>
s_youtube_com_watch == <<"y","o","u","t","u","b","e",".","c","o","m","/","w","a","t","c","h">>
s_youtu_be_slash == <<"y","o","u","t","u",".","b","e","/">>
s_youtube_com_embed == <<"y","o","u","t","u","b","e",".","c","o","m","/","e","m","b","e","d","/">>
s_youtube_com_shorts == <<"y","o","u","t","u","b","e",".","c","o","m","/","s","h","o","r","t","s","/">>
s_watch_v == <<"h","t","t","p","s",":","/","/","w","w","w",".","y","o","u","t","u","b","e",".","c","o","m","/","w","a","t","c","h","?","v","=">>
s_img_vi == <<"h","t","t","p","s",":","/","/","i","m","g",".","y","o","u","t","u","b","e",".","c","o","m","/","v","i","/">>
s_maxresdefault == <<"/","m","a","x","r","e","s","d","e","f","a","u","l","t",".","j","p","g">>
s_dot_mp3 == <<".","m","p","3">>
s_YouTube == <<"Y","o","u","T","u","b","e">>
s_media == <<"m","e","d","i","a">>

\* MEDIA_EXTENSIONS of media-downloader/index.js
MD_MEDIA_EXTENSIONS ==
  [audio |-> <<<<".","m","p","3">>, <<".","m","4","a">>, <<".","o","g","g">>, <<".","w","a","v">>, <<".","f","l","a","c">>, <<".","a","a","c">>, <<".","w","m","a">>>>,
   video |-> <<<<".","m","p","4">>, <<".","w","e","b","m">>, <<".","m","k","v">>, <<".","a","v","i">>, <<".","m","o","v">>>>,
   stream |-> <<<<".","m","3","u","8">>, <<".","m","p","d">>>>]

\* MEDIA_EXTENSIONS of the stream-extracting media-downloader (part_000)
P0_MEDIA_EXTENSIONS ==
  [audio |-> <<<<".","m","p","3">>, <<".","m","4","a">>, <<".","o","g","g">>, <<".","w","a","v">>, <<".","f","l","a","c">>, <<".","a","a","c">>, <<".","w","m","a">>, <<".","o","p","u","s">>>>,
   video |-> <<<<".","m","p","4">>, <<".","w","e","b","m">>, <<".","m","k","v">>, <<".","a","v","i">>, <<".","m","o","v">>>>,
   stream |-> <<<<".","m","3","u","8">>, <<".","m","p","d">>>>]

\* drmSites (part_000) and streamingSites (media-downloader): the same list
drmSites ==
  <<<<"n","e","t","f","l","i","x",".","c","o","m">>, <<"h","u","l","u",".","c","o","m">>, <<"d","i","s","n","e","y","p","l","u","s",".","c","o","m">>, <<"p","r","i","m","e","v","i","d","e","o",".","c","o","m">>, <<"s","p","o","t","i","f","y",".","c","o","m">>>>

----------------------------------------------------------------------------
(* The components                                                          *)

RS == "realtime-subtitles"
YA == "youtube-audio-downloader"
MD == "media-downloader"
P0 == "part_000"
P1 == "part_001"
TD == "thumbnail-downloader"
Components == {RS, YA, MD, P0, P1, TD}

----------------------------------------------------------------------------
(* The inputs: the URLs the host may be on                                 *)

\* number of distinct video IDs among the inputs
MaxIds == 2

\* video IDs: letters of both cases, a digit, '-' and '_'
VideoId(n) == <<"I", "d", "-", "_", DIGITS[n + 1]>>
VideoIds == {VideoId(n) : n \in 1..MaxIds}

Hosts ==
  {<<"w","w","w",".","y","o","u","t","u","b","e",".","c","o","m">>, <<"y","o","u","t","u",".","b","e">>, <<"v","i","m","e","o",".","c","o","m">>, <<"w","w","w",".","d","a","i","l","y","m","o","t","i","o","n",".","c","o","m">>,
   <<"e","x","a","m","p","l","e",".","c","o","m">>, <<"w", "w", "w", ".">> \o drmSites[1]}

Paths ==
  {<<>>, <<"/","w","a","t","c","h">>, <<"/","c","l","i","p",".","m","p","4">>, <<"/","a","/","s","o","n","g",".","m","p","3">>, <<"/","T","r","a","c","k",".","F","L","A","C">>, <<"/","a",".","o","g","g","s",".","o","g","g">>,
   <<"/","l","i","v","e",".","m","3","u","8">>, <<"/","m","a","n","i","f","e","s","t",".","m","p","d">>, <<"/","v","i","d","e","o","/","x","8","a","b","c","_","t","i","t","l","e">>, <<"/","1","2","3","4">>,
   <<"/","e","m","b","e","d","/">> \o VideoId(1), <<"/","s","h","o","r","t","s","/">> \o VideoId(1), <<"/">> \o VideoId(1)}

Queries ==
  {<<>>, <<"?","r","e","f","=","y","o","u","t","u",".","b","e","/","z","z">>, <<"?","t","=","1","&","v","=">> \o VideoId(1)}
  \cup {<<"?","v","=">> \o id : id \in VideoIds}

\* absolute URLs, which new URL accepts: every path and query on six hosts,
\* and a few paths on the other four DRM-listed hosts
ValidUrls ==
  {s_https \o h \o p \o q : h \in Hosts, p \in Paths, q \in Queries}
  \cup {s_https \o <<"w", "w", "w", ".">> \o drmSites[i] \o p :
          i \in 2..Len(drmSites), p \in {<<>>, <<"/","c","l","i","p",".","m","p","4">>, <<"/","l","i","v","e",".","m","3","u","8">>}}

\* what the host may hand to DataCollector: a page URL, a text that is no URL,
\* the empty string or nothing
Urls ==
  ValidUrls \cup {<<"e","x","a","m","p","l","e",".","c","o","m","/","c","l","i","p",".","m","p","4">>, <<"y","o","u","t","u",".","b","e","/">> \o VideoId(1), <<>>, Undefined}

\* the DOM of a page: document.title, the content of the og:image and
\* twitter:image meta elements (Null: no such element) and the poster of each
\* video[poster] element
Pages ==
  {[title |-> <<"A page">>, ogImage |-> Null, twitterImage |-> Null, posters |-> <<>>],
   [title |-> <<"A page">>, ogImage |-> <<"h","t","t","p","s",":","/","/","c","d","n",".","e","x","a","m","p","l","e",".","c","o","m","/","o","g",".","P","N","G">>,
    twitterImage |-> <<>>, posters |-> <<>>],
   [title |-> <<"A page">>, ogImage |-> Null,
    twitterImage |-> <<"h","t","t","p","s",":","/","/","c","d","n",".","e","x","a","m","p","l","e",".","c","o","m","/","t","w",".","j","p","e","g">>,
    posters |-> << <<>>, <<"h","t","t","p","s",":","/","/","c","d","n",".","e","x","a","m","p","l","e",".","c","o","m","/","p","o","s","t","e","r">> >>]}

NoPage == [title |-> <<>>, ogImage |-> Null, twitterImage |-> Null, posters |-> <<>>]

----------------------------------------------------------------------------
(* CollectedData.  One record shape serves the six collectors: a property  *)
(* a collector does not set is Undefined (a list: empty, and named in      *)
(* absent).  defined = FALSE is the value undefined itself.                *)

ListProps == {"candidates", "media", "thumbnails"}

DataBase ==
  [defined |-> TRUE, absent |-> ListProps, timestamp |-> -1,
   pageUrl |-> Undefined, site |-> Undefined, candidates |-> <<>>,
   videoInfo |-> <<>>, inputMode |-> Undefined, message |-> Undefined,
   error |-> Undefined, platform |-> Undefined, videoId |-> Undefined,
   videoUrl |-> Undefined, title |-> Undefined, media |-> <<>>,
   thumbnails |-> <<>>, sourceUrl |-> Undefined, pageTitle |-> Undefined]

NoData == [DataBase EXCEPT !.defined = FALSE]

\* !data.<list>: the list property is absent
MissingList(d, prop) == prop \in d.absent

----------------------------------------------------------------------------
(* realtime-subtitles                                                      *)

RS_DataCollector(currentUrl, t) ==
  LET result == [DataBase EXCEPT !.timestamp = t,
                                 !.pageUrl = Or(currentUrl, <<>>),
                                 !.message = <<>>]
  IN IF ~Truthy(currentUrl)
     THEN [result EXCEPT
             !.error = <<"No URL provided. Make sure you have a webpage open.">>]
     ELSE [result EXCEPT
             !.message = <<"Ready to start real-time subtitles.\n\nPage: ">>
                         \o currentUrl
                         \o <<"\n\nThis will capture audio from the current tab ... Click \"Run CD\" to start. Click again to stop.">>]

----------------------------------------------------------------------------
(* youtube-audio-downloader: DataCollector                                 *)

\* the four patterns tried in turn, the first match winning
YA_extractVideoId(currentUrl) ==
  LET m1 == matchGroup(currentUrl, <<Class({"?", "&"}), Class({"v"}), Class({"="})>>,
                       NotClass({"&"}))
      m2 == matchGroup(currentUrl, Literal(s_youtu_be_slash), NotClass({"?", "&"}))
      m3 == matchGroup(currentUrl, Literal(s_youtube_com_embed), NotClass({"?", "&"}))
      m4 == matchGroup(currentUrl, Literal(s_youtube_com_shorts), NotClass({"?", "&"}))
  IN IF m1 # Null THEN m1
     ELSE IF m2 # Null THEN m2
     ELSE IF m3 # Null THEN m3
     ELSE m4

YA_DataCollector(currentUrl, t) ==
  LET result == [DataBase EXCEPT !.timestamp = t, !.platform = Null,
                                 !.videoId = Null, !.videoUrl = Null,
                                 !.title = Null, !.absent = ListProps \ {"media"}]
  IN IF ~Truthy(currentUrl)
     THEN [result EXCEPT
             !.error = <<"No URL provided. Make sure you are on a YouTube video page.">>]
     ELSE IF ~URLValid(currentUrl)
     THEN \* new URL throws: caught at line 96
          [result EXCEPT !.error = <<"Invalid URL format: ", "Invalid URL">>]
     ELSE
       LET hostname == URLHostname(currentUrl)
           videoId == YA_extractVideoId(currentUrl)
       IN IF ~includes(hostname, s_youtube_com) /\ ~includes(hostname, s_youtu_be)
          THEN [result EXCEPT
                  !.error = <<"This component only works with YouTube. Current site: ">>
                            \o hostname]
          ELSE IF ~Truthy(videoId)
          THEN [result EXCEPT
                  !.platform = s_YouTube,
                  !.error = <<"Could not extract video ID from YouTube URL. Make sure you are on a video page.">>]
          ELSE [result EXCEPT
                  !.platform = s_YouTube,
                  !.videoId = videoId,
                  !.videoUrl = s_watch_v \o videoId,
                  !.media = <<[url |-> s_watch_v \o videoId, videoId |-> videoId,
                               type |-> <<"audio">>, format |-> <<"mp3">>,
                               filename |-> <<"y","o","u","t","u","b","e","-">> \o videoId \o s_dot_mp3]>>,
                  !.message = <<"YouTube video detected. Video ID: ">> \o videoId]

----------------------------------------------------------------------------
(* thumbnail-downloader/index.js: DataCollector                            *)

TD_extractVideoId(u) ==
  LET m1 == matchGroup(u, <<Class({"?", "&"}), Class({"v"}), Class({"="})>>,
                       NotClass({"&"}))
      m2 == matchGroup(u, Literal(s_youtu_be_slash), NotClass({"?", "&"}))
      m3 == matchGroup(u, Literal(s_youtube_com_embed), NotClass({"?", "&"}))
      m4 == matchGroup(u, Literal(s_youtube_com_shorts), NotClass({"?", "&"}))
  IN IF m1 # Null THEN m1
     ELSE IF m2 # Null THEN m2
     ELSE IF m3 # Null THEN m3
     ELSE m4

\* the five YouTube thumbnail templates, best first
TD_youtubeThumbnails(videoId) ==
  <<[quality |-> <<"Max Resolution">>, resolution |-> <<"1280x720">>,
     url |-> s_img_vi \o videoId \o s_maxresdefault],
    [quality |-> <<"SD">>, resolution |-> <<"640x480">>,
     url |-> s_img_vi \o videoId \o <<"/","s","d","d","e","f","a","u","l","t",".","j","p","g">>],
    [quality |-> <<"High Quality">>, resolution |-> <<"480x360">>,
     url |-> s_img_vi \o videoId \o <<"/","h","q","d","e","f","a","u","l","t",".","j","p","g">>],
    [quality |-> <<"Medium Quality">>, resolution |-> <<"320x180">>,
     url |-> s_img_vi \o videoId \o <<"/","m","q","d","e","f","a","u","l","t",".","j","p","g">>],
    [quality |-> <<"Default">>, resolution |-> <<"120x90">>,
     url |-> s_img_vi \o videoId \o <<"/","d","e","f","a","u","l","t",".","j","p","g">>]>>

TD_DataCollector(currentUrl) ==
  LET result == [DataBase EXCEPT !.platform = Null, !.videoId = Null,
                                 !.absent = ListProps \ {"thumbnails"},
                                 !.sourceUrl = Or(currentUrl, <<"No URL provided">>)]
  IN IF ~Truthy(currentUrl)
     THEN [result EXCEPT
             !.error = <<"No URL provided. Make sure you are on a video page.">>]
     ELSE IF ~URLValid(currentUrl)
     THEN [result EXCEPT !.error = <<"Invalid URL format: ">> \o currentUrl]
     ELSE
       LET hostname == URLHostname(currentUrl)
           videoId == TD_extractVideoId(currentUrl)
           vimeoMatch == matchGroup(currentUrl, Literal(s_vimeo_com \o <<"/">>),
                                    Class(Range(DIGITS)))
           dmMatch == matchGroup(currentUrl, Literal(s_dailymotion_com \o <<"/","v","i","d","e","o","/">>),
                                 NotClass({"_", "?"}))
       IN IF includes(hostname, s_youtube_com) \/ includes(hostname, s_youtu_be)
          THEN IF Truthy(videoId)
               THEN [result EXCEPT
                       !.platform = s_YouTube,
                       !.videoId = videoId,
                       !.thumbnails = TD_youtubeThumbnails(videoId),
                       !.message = <<"Found ", "5", " thumbnails">>]
               ELSE [result EXCEPT
                       !.platform = s_YouTube,
                       !.error = <<"Could not extract video ID from YouTube URL">>]
          ELSE IF includes(hostname, s_vimeo_com)
          THEN IF vimeoMatch # Null
               THEN [result EXCEPT
                       !.platform = <<"V","i","m","e","o">>,
                       !.videoId = vimeoMatch,
                       !.thumbnails =
                          <<[quality |-> <<"Vimeo Thumbnail">>,
                             resolution |-> <<"Variable">>,
                             url |-> <<"h","t","t","p","s",":","/","/","v","u","m","b","n","a","i","l",".","c","o","m","/">> \o vimeoMatch \o <<".","j","p","g">>]>>,
                       !.message = <<"Found thumbnail for Vimeo video">>]
               ELSE [result EXCEPT
                       !.platform = <<"V","i","m","e","o">>,
                       !.error = <<"Could not extract video ID from Vimeo URL">>]
          ELSE IF includes(hostname, s_dailymotion_com)
          THEN IF dmMatch # Null
               THEN [result EXCEPT
                       !.platform = <<"D","a","i","l","y","m","o","t","i","o","n">>,
                       !.videoId = dmMatch,
                       !.thumbnails =
                          <<[quality |-> <<"Dailymotion Thumbnail">>,
                             resolution |-> <<"Variable">>,
                             url |-> <<"h","t","t","p","s",":","/","/","w","w","w",".","d","a","i","l","y","m","o","t","i","o","n",".","c","o","m","/","t","h","u","m","b","n","a","i","l","/","v","i","d","e","o","/">>
                                     \o dmMatch]>>,
                       !.message = <<"Found thumbnail for Dailymotion video">>]
               ELSE [result EXCEPT
                       !.platform = <<"D","a","i","l","y","m","o","t","i","o","n">>,
                       !.error = <<"Could not extract video ID from Dailymotion URL">>]
          ELSE [result EXCEPT
                  !.platform = <<"U","n","s","u","p","p","o","r","t","e","d">>,
                  !.error = <<"This website is not supported. Try YouTube, Vimeo, or Dailymotion.">>]

----------------------------------------------------------------------------
(* thumbnail-downloader, page-scraping variant (part_001): DataCollector   *)

P1_extractVideoId(u) ==
  LET m1 == matchGroup(u, <<Class({"?", "&"}), Class({"v"}), Class({"="})>>,
                       NotClass({"&"}))
      m2 == matchGroup(u, Literal(s_youtu_be_slash), NotClass({"?", "&"}))
      m3 == matchGroup(u, Literal(s_youtube_com_embed), NotClass({"?", "&"}))
      m4 == matchGroup(u, Literal(s_youtube_com_shorts), NotClass({"?", "&"}))
  IN IF m1 # Null THEN m1
     ELSE IF m2 # Null THEN m2
     ELSE IF m3 # Null THEN m3
     ELSE m4

P1_youtubeThumbnails(videoId) ==
  <<[quality |-> <<"Max Resolution">>, width |-> 1280, height |-> 720,
     url |-> s_img_vi \o videoId \o s_maxresdefault],
    [quality |-> <<"SD">>, width |-> 640, height |-> 480,
     url |-> s_img_vi \o videoId \o <<"/","s","d","d","e","f","a","u","l","t",".","j","p","g">>],
    [quality |-> <<"High Quality">>, width |-> 480, height |-> 360,
     url |-> s_img_vi \o videoId \o <<"/","h","q","d","e","f","a","u","l","t",".","j","p","g">>],
    [quality |-> <<"Medium Quality">>, width |-> 320, height |-> 180,
     url |-> s_img_vi \o videoId \o <<"/","m","q","d","e","f","a","u","l","t",".","j","p","g">>],
    [quality |-> <<"Default">>, width |-> 120, height |-> 90,
     url |-> s_img_vi \o videoId \o <<"/","d","e","f","a","u","l","t",".","j","p","g">>]>>

\* one thumbnail read from the page, or none when the element or its value is missing
P1_metaThumbnail(quality, content) ==
  IF Truthy(content)
  THEN <<[quality |-> quality, url |-> content, width |-> Null, height |-> Null]>>
  ELSE <<>>

\* the loop over document.querySelectorAll('video[poster]'), from index i (1-based)
RECURSIVE P1_posterThumbnails(_, _)
P1_posterThumbnails(posters, i) ==
  IF i > Len(posters) THEN <<>>
  ELSE P1_metaThumbnail(<<"Video Poster ", DIGITS[i + 1]>>, posters[i])
       \o P1_posterThumbnails(posters, i + 1)

\* DataCollector(): href is window.location.href, d the document
P1_DataCollector(href, d) ==
  LET result == [DataBase EXCEPT !.platform = Null, !.videoId = Null,
                                 !.absent = ListProps \ {"thumbnails"},
                                 !.pageUrl = href, !.pageTitle = d.title]
      hostname == URLHostname(href)
      videoId == P1_extractVideoId(href)
      vimeoMatch == matchGroup(href, Literal(s_vimeo_com \o <<"/">>),
                               Class(Range(DIGITS)))
      dmMatch == matchGroup(href, Literal(s_dailymotion_com \o <<"/","v","i","d","e","o","/">>),
                            NotClass({"_", "?"}))
  IN IF includes(hostname, s_youtube_com) \/ includes(hostname, s_youtu_be)
     THEN IF Truthy(videoId)
          THEN [result EXCEPT !.platform = s_YouTube, !.videoId = videoId,
                              !.thumbnails = P1_youtubeThumbnails(videoId)]
          ELSE [result EXCEPT !.platform = s_YouTube]
     ELSE IF includes(hostname, s_vimeo_com)
     THEN IF vimeoMatch # Null
          THEN [result EXCEPT
                  !.platform = <<"V","i","m","e","o">>, !.videoId = vimeoMatch,
                  !.thumbnails = P1_metaThumbnail(<<"OG Image">>, d.ogImage)]
          ELSE [result EXCEPT !.platform = <<"V","i","m","e","o">>]
     ELSE IF includes(hostname, s_dailymotion_com)
     THEN IF dmMatch # Null
          THEN [result EXCEPT
                  !.platform = <<"D","a","i","l","y","m","o","t","i","o","n">>, !.videoId = dmMatch,
                  !.thumbnails =
                     <<[quality |-> <<"Thumbnail">>,
                        url |-> <<"h","t","t","p","s",":","/","/","w","w","w",".","d","a","i","l","y","m","o","t","i","o","n",".","c","o","m","/","t","h","u","m","b","n","a","i","l","/","v","i","d","e","o","/">>
                                \o dmMatch,
                        width |-> Null, height |-> Null]>>]
          ELSE [result EXCEPT !.platform = <<"D","a","i","l","y","m","o","t","i","o","n">>]
     ELSE [result EXCEPT
             !.platform = <<"G","e","n","e","r","i","c">>,
             !.thumbnails = P1_metaThumbnail(<<"OG Image">>, d.ogImage)
                            \o P1_metaThumbnail(<<"Twitter Image">>, d.twitterImage)
                            \o P1_posterThumbnails(d.posters, 1)]

----------------------------------------------------------------------------
(* media-downloader/index.js (the convert-requesting variant): DataCollector *)

MD_getExtension(u) ==
  IF ~URLValid(u) THEN <<>>
  ELSE LET path == toLowerCase(URLPathname(u))
           dotIdx == lastIndexOf(path, <<".">>)
       IN IF dotIdx > 0 THEN substring(path, dotIdx) ELSE <<>>

MD_getFilename(u) ==
  IF ~URLValid(u) THEN s_media
  ELSE LET path == URLPathname(u)
           last == substring(path, lastIndexOf(path, <<"/">>) + 1)
           q == indexOf(last, <<"?">>)
       IN Or(IF q = -1 THEN last ELSE substring2(last, 0, q), s_media)

MD_classifyUrl(u) ==
  LET ext == MD_getExtension(u)
  IN IF ext \in Range(MD_MEDIA_EXTENSIONS.audio) THEN <<"audio">>
     ELSE IF ext \in Range(MD_MEDIA_EXTENSIONS.video) THEN <<"video">>
     ELSE IF ext \in Range(MD_MEDIA_EXTENSIONS.stream) THEN <<"stream">>
     ELSE Null

\* the first listed site the URL contains, or 0
FirstSiteIn(u, sites) ==
  IF \E i \in DOMAIN sites : includes(u, sites[i])
  THEN MinOf({i \in DOMAIN sites : includes(u, sites[i])})
  ELSE 0

MD_DataCollector(currentUrl, t) ==
  LET result == [DataBase EXCEPT !.timestamp = t,
                                 !.pageUrl = Or(currentUrl, <<>>),
                                 !.absent = ListProps \ {"candidates"},
                                 !.inputMode = Null, !.message = <<>>]
      currentExt == MD_getExtension(currentUrl)
      currentType == MD_classifyUrl(currentUrl)
      site == FirstSiteIn(currentUrl, drmSites)
  IN IF ~Truthy(currentUrl)
     THEN [result EXCEPT !.error = <<"No URL provided.">>]
     ELSE IF currentType = <<"stream">>
     THEN [result EXCEPT
             !.error = <<"This is a streaming manifest (.m3u8/.mpd). Cannot download directly - these are segmented streams that require special handling.">>]
     ELSE IF Truthy(currentType)
     THEN [result EXCEPT
             !.candidates = <<[url |-> currentUrl,
                               filename |-> MD_getFilename(currentUrl),
                               type |-> currentType,
                               extension |-> currentExt,
                               source |-> <<"direct-url">>]>>,
             !.inputMode = <<"direct-url">>,
             !.message = <<"Direct media URL detected: ">>
                         \o replace(toUpperCase(currentExt), <<".">>, <<>>)]
     ELSE IF includes(currentUrl, s_youtube_com_watch)
             \/ includes(currentUrl, s_youtu_be_slash)
     THEN [result EXCEPT
             !.error = <<"YouTube uses encrypted adaptive streaming (DASH). Direct media URLs are not accessible. Use a dedicated YouTube downloader service.">>]
     ELSE IF site # 0
     THEN [result EXCEPT
             !.error = <<"This site (">> \o drmSites[site]
                       \o <<") uses DRM-protected streaming. Content cannot be downloaded.">>]
     ELSE [result EXCEPT
             !.inputMode = <<"manual">>,
             !.message = <<"No direct media URL detected. To download media: ... Supported formats: ">>
                         \o join(MD_MEDIA_EXTENSIONS.audio \o MD_MEDIA_EXTENSIONS.video,
                                 <<",", " ">>)]

----------------------------------------------------------------------------
(* media-downloader, stream-extracting variant (part_000): DataCollector   *)

P0_getExtension(u) ==
  IF ~URLValid(u) THEN <<>>
  ELSE LET path == toLowerCase(URLPathname(u))
           dotIdx == lastIndexOf(path, <<".">>)
       IN IF dotIdx > 0 THEN substring(path, dotIdx) ELSE <<>>

P0_getFilename(u) ==
  IF ~URLValid(u) THEN s_media
  ELSE LET path == URLPathname(u)
           last == substring(path, lastIndexOf(path, <<"/">>) + 1)
           q == indexOf(last, <<"?">>)
       IN Or(IF q = -1 THEN last ELSE substring2(last, 0, q), s_media)

P0_classifyUrl(u) ==
  LET ext == P0_getExtension(u)
  IN IF ext \in Range(P0_MEDIA_EXTENSIONS.audio) THEN <<"audio">>
     ELSE IF ext \in Range(P0_MEDIA_EXTENSIONS.video) THEN <<"video">>
     ELSE IF ext \in Range(P0_MEDIA_EXTENSIONS.stream) THEN <<"stream">>
     ELSE Null

\* result.videoInfo of a watch / youtu.be URL
P0_videoInfo(videoId) ==
  [id |-> videoId,
   url |-> s_watch_v \o videoId,
   thumbnails |-> [maxres |-> s_img_vi \o videoId \o s_maxresdefault,
                   hq |-> s_img_vi \o videoId \o <<"/","h","q","d","e","f","a","u","l","t",".","j","p","g">>,
                   default |-> s_img_vi \o videoId \o <<"/","d","e","f","a","u","l","t",".","j","p","g">>]]

\* result.videoInfo of a shorts URL: the maxres thumbnail alone
P0_shortsInfo(shortsId) ==
  [id |-> shortsId,
   url |-> s_watch_v \o shortsId,
   thumbnails |-> [maxres |-> s_img_vi \o shortsId \o s_maxresdefault,
                   hq |-> Undefined, default |-> Undefined]]

P0_DataCollector(currentUrl, t) ==
  LET result == [DataBase EXCEPT !.timestamp = t,
                                 !.pageUrl = Or(currentUrl, <<>>),
                                 !.site = Null,
                                 !.absent = ListProps \ {"candidates"},
                                 !.message = <<>>]
      m1 == matchGroup(currentUrl, <<Class({"?", "&"}), Class({"v"}), Class({"="})>>,
                       NotClass({"&"}))
      m2 == matchGroup(currentUrl, Literal(s_youtu_be_slash), NotClass({"?", "&"}))
      match == IF m1 # Null THEN m1 ELSE m2
      isShorts == includes(currentUrl, s_youtube_com_shorts)
      shortsMatch == matchGroup(currentUrl, Literal(s_youtube_com_shorts),
                                NotClass({"?", "&"}))
      \* a shorts URL without an ID falls through with site already 'youtube'
      fell == IF isShorts THEN [result EXCEPT !.site = <<"youtube">>] ELSE result
      urlType == P0_classifyUrl(currentUrl)
  IN IF ~Truthy(currentUrl)
     THEN [result EXCEPT !.error = <<"No URL provided.">>]
     ELSE IF includes(currentUrl, s_youtube_com_watch)
             \/ includes(currentUrl, s_youtu_be_slash)
     THEN IF match = Null
          THEN [result EXCEPT !.site = <<"youtube">>,
                              !.error = <<"Could not extract YouTube video ID">>]
          ELSE [result EXCEPT
                  !.site = <<"youtube">>,
                  !.videoInfo = <<P0_videoInfo(match)>>,
                  !.message = <<"YouTube video detected. Video ID: ">> \o match
                              \o <<"\n\nClick \"Run CD\" to attempt stream extraction.">>]
     ELSE IF isShorts /\ shortsMatch # Null
     THEN [result EXCEPT
             !.site = <<"youtube">>,
             !.videoInfo = <<P0_shortsInfo(shortsMatch)>>,
             !.message = <<"YouTube Short detected. Video ID: ">> \o shortsMatch]
     ELSE IF urlType = <<"stream">>
     THEN [fell EXCEPT
             !.error = <<"Streaming manifest detected (.m3u8/.mpd). These are segmented streams that require special handling.">>]
     ELSE IF Truthy(urlType)
     THEN [fell EXCEPT
             !.site = <<"direct">>,
             !.candidates = <<[url |-> currentUrl,
                               filename |-> P0_getFilename(currentUrl),
                               type |-> urlType,
                               extension |-> P0_getExtension(currentUrl),
                               source |-> <<"direct-url">>]>>,
             !.message = <<"Direct ">> \o urlType \o <<" file detected: ">>
                         \o P0_getFilename(currentUrl)]
     ELSE IF FirstSiteIn(currentUrl, drmSites) # 0
     THEN [fell EXCEPT
             !.error = <<"This site uses DRM protection. Content cannot be downloaded.">>]
     ELSE [fell EXCEPT
             !.site = <<"unknown">>,
             !.message = <<"No media detected on this page. ...">>]

----------------------------------------------------------------------------
(* ActionResult.  One record shape serves the six runners: a property a    *)
(* runner does not set is Undefined (a number: -1, an object: <<>>).       *)

ResultBase ==
  [success |-> FALSE, action |-> Undefined, download |-> <<>>,
   error |-> Undefined, message |-> Undefined, note |-> Undefined,
   ytdlpCommand |-> Undefined, availableFormats |-> -1, source |-> <<>>,
   outputFilename |-> Undefined, fallback |-> <<>>, pageUrl |-> Undefined,
   platform |-> Undefined, videoId |-> Undefined, thumbnailUrl |-> Undefined,
   quality |-> Undefined, allThumbnails |-> -1]

\* { success: false, error: msg }
Failure(msg) == [ResultBase EXCEPT !.error = msg]

\* download: { url, filename, saveAs: true }
Download(u, filename) == <<[url |-> u, filename |-> filename, saveAs |-> TRUE]>>

(* How a block of code ends: it returns a value, throws an error, or runs   *)
(* off its end.                                                            *)
Return(v) == [kind |-> "return", value |-> v, error |-> Undefined]
Throw(msg) == [kind |-> "throw", value |-> ResultBase, error |-> msg]
FallThrough == [kind |-> "end", value |-> ResultBase, error |-> Undefined]

----------------------------------------------------------------------------
(* realtime-subtitles: Run                                                 *)

RS_Run(d) ==
  IF ~d.defined THEN Failure(<<"No data. Click \"Get Data\" first.">>)
  ELSE IF Truthy(d.error) THEN Failure(d.error)
  ELSE [ResultBase EXCEPT !.success = TRUE,
                          !.action = <<"start_subtitles">>,
                          !.pageUrl = d.pageUrl,
                          !.message = <<"Starting real-time subtitles...">>]

----------------------------------------------------------------------------
(* thumbnail-downloader/index.js: Run                                      *)

TD_Run(collectedData) ==
  IF ~collectedData.defined
  THEN Failure(<<"No data collected. Click \"Get Data\" first while on a video page.">>)
  ELSE IF Truthy(collectedData.error) THEN Failure(collectedData.error)
  ELSE IF MissingList(collectedData, "thumbnails") \/ Len(collectedData.thumbnails) = 0
  THEN Failure(<<"No thumbnails found in collected data.">>)
  ELSE
    LET bestThumb == collectedData.thumbnails[1]
        videoId == Or(collectedData.videoId, <<"v","i","d","e","o">>)
        platform == toLowerCase(Or(collectedData.platform, <<"u","n","k","n","o","w","n">>))
        filename == platform \o <<"-">> \o videoId \o <<"-","t","h","u","m","b","n","a","i","l",".","j","p","g">>
    IN [ResultBase EXCEPT
          !.success = TRUE,
          !.action = <<"download">>,
          !.download = Download(bestThumb.url, filename),
          !.message = <<"Downloading ">> \o bestThumb.quality \o <<" thumbnail (">>
                      \o bestThumb.resolution \o <<")">>,
          !.platform = collectedData.platform,
          !.videoId = collectedData.videoId,
          !.thumbnailUrl = bestThumb.url]

----------------------------------------------------------------------------
(* thumbnail-downloader, page-scraping variant (part_001): Run             *)

\* the alternatives of /\.(jpg|jpeg|png|webp|gif)/i, in the order tried
P1_imageExts == <<<<"j","p","g">>, <<"j","p","e","g">>, <<"p","n","g">>, <<"w","e","b","p">>, <<"g","i","f">>>>

\* bestThumb.url.match(/\.(jpg|jpeg|png|webp|gif)/i): group 1, or Null
P1_extMatch(u) ==
  LET lower == toLowerCase(u)
      alts(i) == {k \in DOMAIN P1_imageExts : StartsAt(lower, i + 1, P1_imageExts[k])}
      starts == {i \in 1..Len(u) : u[i] = "." /\ alts(i) # {}}
  IN IF starts = {} THEN Null
     ELSE LET i == MinOf(starts)
              k == MinOf(alts(i))
          IN SubSeq(u, i + 1, i + Len(P1_imageExts[k]))

\* Run(data) on the page (href, d): what it returns, the <a> elements it
\* creates, the URLs it opens and whether it collected from the page itself
P1_Run(d0, href, d) ==
  LET collects == ~d0.defined
      thumbData == IF collects THEN P1_DataCollector(href, d) ELSE d0
      bestThumb == thumbData.thumbnails[1]
      filename == IF Truthy(thumbData.platform)
                  THEN toLowerCase(thumbData.platform) \o <<"_">>
                       \o Or(thumbData.videoId, <<"t","h","u","m","b">>)
                  ELSE <<"t","h","u","m","b","n","a","i","l">>
      extMatch == P1_extMatch(bestThumb.url)
      ext == IF extMatch # Null THEN <<".">> \o toLowerCase(extMatch) ELSE <<".","j","p","g">>
  IN IF MissingList(thumbData, "thumbnails") \/ Len(thumbData.thumbnails) = 0
     THEN [value |-> [ResultBase EXCEPT
                        !.message = <<"No thumbnails found on this page">>,
                        !.platform = thumbData.platform],
           anchors |-> <<>>, opens |-> <<>>, collects |-> collects]
     ELSE [value |-> [ResultBase EXCEPT
                        !.success = TRUE,
                        !.message = <<"Thumbnail opened in new tab">>,
                        !.platform = thumbData.platform,
                        !.videoId = thumbData.videoId,
                        !.thumbnailUrl = bestThumb.url,
                        !.quality = bestThumb.quality,
                        !.allThumbnails = Len(thumbData.thumbnails)],
           anchors |-> <<[href |-> bestThumb.url, target |-> <<"_blank">>,
                          download |-> filename \o ext]>>,
           opens |-> <<bestThumb.url>>,
           collects |-> collects]

----------------------------------------------------------------------------
(* media-downloader/index.js (the convert-requesting variant): Run         *)

\* a convert_to_mp3 result that names no fallback
MD_convertNoFallback(media, ext, filename, type, message, fallbackMessage) ==
  [ResultBase EXCEPT
     !.success = TRUE,
     !.action = <<"convert_to_mp3">>,
     !.source = <<[url |-> media.url, type |-> type, extension |-> ext,
                   filename |-> filename]>>,
     !.outputFilename = replace(filename, ext, s_dot_mp3),
     !.message = message]

\* the convert_to_mp3 result of lines 172-192 (type 'audio') and 197-217 ('video')
MD_convert(media, ext, filename, type, message, fallbackMessage) ==
  [ResultBase EXCEPT
     !.success = TRUE,
     !.action = <<"convert_to_mp3">>,
     !.source = <<[url |-> media.url, type |-> type, extension |-> ext,
                   filename |-> filename]>>,
     !.outputFilename = replace(filename, ext, s_dot_mp3),
     !.message = message,
     !.fallback = <<[action |-> <<"download">>,
                     download |-> Download(media.url, filename),
                     message |-> fallbackMessage \o filename]>>]

MD_Run(d) ==
  IF ~d.defined THEN Failure(<<"No data collected. Click \"Get Data\" first.">>)
  ELSE IF Truthy(d.error) THEN Failure(d.error)
  ELSE IF MissingList(d, "candidates") \/ Len(d.candidates) = 0
  THEN Failure(<<"No media files found. Navigate directly to a media file URL (.mp3, .mp4, etc.) and try again.">>)
  ELSE
    LET media == d.candidates[1]
        ext == toLowerCase(media.extension)
        filename == media.filename
    IN IF ext \in Range(MD_MEDIA_EXTENSIONS.stream)
       THEN Failure(<<"Cannot download streaming manifests (.m3u8/.mpd) directly. These are segmented streams used by sites like YouTube, Netflix, etc.">>)
       ELSE IF ext = s_dot_mp3
       THEN [ResultBase EXCEPT
               !.success = TRUE,
               !.action = <<"download">>,
               !.download = Download(media.url, filename),
               !.message = <<"Downloading MP3: ">> \o filename]
       ELSE IF ext \in Range(MD_MEDIA_EXTENSIONS.audio)
       THEN MD_convert(media, ext, filename, <<"audio">>,
                       <<"Audio file detected (">> \o ext
                         \o <<"). Conversion to MP3 requested.">>,
                       <<"If conversion is not available, downloading original: ">>)
       ELSE IF ext \in Range(MD_MEDIA_EXTENSIONS.video)
       THEN MD_convert(media, ext, filename, <<"video">>,
                       <<"Video file detected (">> \o ext
                         \o <<"). Audio extraction to MP3 requested.">>,
                       <<"If conversion is not available, downloading original video: ">>)
       ELSE [ResultBase EXCEPT
               !.success = TRUE,
               !.action = <<"download">>,
               !.download = Download(media.url, filename),
               !.message = <<"Downloading: ">> \o filename]

----------------------------------------------------------------------------
(* What fetch delivers.  rejects: the promise of fetch rejects; ok, status: *)
(* response.ok and response.status; bodyFails: response.text() or          *)
(* response.json() rejects (for json(): the body is no JSON); json: the    *)
(* parsed body of the audio APIs; html: the fetched watch page, as what    *)
(* the ytInitialPlayerResponse patterns and JSON.parse make of it.         *)

NoJson == [status |-> Undefined, text |-> Undefined, url |-> Undefined,
           filename |-> Undefined]

NoPlayerData == [playabilityStatus |-> <<>>, videoDetails |-> <<>>, streamingData |-> <<>>]

NoHtml == [match |-> FALSE, parses |-> FALSE, playerData |-> NoPlayerData]

ResponseBase ==
  [rejects |-> FALSE, ok |-> TRUE, status |-> <<"200">>, bodyFails |-> FALSE,
   json |-> NoJson, html |-> NoHtml]

Rejected == [ResponseBase EXCEPT !.rejects = TRUE, !.ok = FALSE, !.status = Undefined]
NotOk(status) == [ResponseBase EXCEPT !.ok = FALSE, !.status = status]
BodyFails == [ResponseBase EXCEPT !.bodyFails = TRUE]
JsonBody(j) == [ResponseBase EXCEPT !.json = j]
HtmlBody(h) == [ResponseBase EXCEPT !.html = h]

----------------------------------------------------------------------------
(* media-downloader, stream-extracting variant (part_000): Run             *)

handleDirectMedia(media) ==
  [ResultBase EXCEPT
     !.success = TRUE,
     !.action = <<"download">>,
     !.download = Download(media.url, media.filename),
     !.message = <<"Downloading: ">> \o media.filename]

\* Run takes the YouTube branch and awaits handleYouTube
P0_RunsYouTube(d) ==
  /\ d.defined
  /\ ~Truthy(d.error)
  /\ d.site = <<"youtube">>
  /\ d.videoInfo # <<>>

\* Run on every other branch
P0_Run(d) ==
  IF ~d.defined THEN Failure(<<"No data. Click \"Get Data\" first.">>)
  ELSE IF Truthy(d.error) THEN Failure(d.error)
  ELSE IF d.site = <<"direct">> /\ ~MissingList(d, "candidates") /\ Len(d.candidates) > 0
  THEN handleDirectMedia(d.candidates[1])
  ELSE Failure(<<"No downloadable media found.">>)

\* title.replace(/[^\w\s-]/g, '')
RECURSIVE stripTitle(_)
stripTitle(t) ==
  IF t = <<>> THEN <<>>
  ELSE (IF Head(t) \in Range(UPPER) \cup Range(LOWER) \cup Range(DIGITS) \cup {"_", " ", "-"}
        THEN <<Head(t)>> ELSE <<>>) \o stripTitle(Tail(t))

\* .replace(/\s+/g, '-'): every run of white space becomes one '-'
RECURSIVE dashTitle(_)
dashTitle(t) ==
  IF t = <<>> THEN <<>>
  ELSE IF Head(t) = " "
  THEN <<"-">> \o dashTitle(SubSeq(t, RunEnd(t, 1, Class({" "})) + 1, Len(t)))
  ELSE <<Head(t)>> \o dashTitle(Tail(t))

\* the title of lines 245-251
videoTitle(playerData, videoId) ==
  IF playerData.videoDetails # <<>> /\ Truthy(playerData.videoDetails[1].title)
  THEN substring2(dashTitle(stripTitle(playerData.videoDetails[1].title)), 0, 50)
  ELSE <<"y","o","u","t","u","b","e","-">> \o videoId

\* f.bitrate || 0, an absent bitrate being -1
bitrateOr0(f) == IF f.bitrate = -1 THEN 0 ELSE f.bitrate

\* streamingData.formats.forEach: the combined formats that have a URL
RECURSIVE combinedOf(_)
combinedOf(fs) ==
  IF fs = <<>> THEN <<>>
  ELSE LET f == Head(fs)
       IN (IF Truthy(f.url)
           THEN <<[url |-> f.url,
                   quality |-> Or(Or(f.qualityLabel, f.quality), <<"unknown">>),
                   mimeType |-> Or(f.mimeType, <<>>),
                   bitrate |-> -1,
                   type |-> <<"combined">>,
                   hasAudio |-> TRUE, hasVideo |-> TRUE]>>
           ELSE <<>>) \o combinedOf(Tail(fs))

\* streamingData.adaptiveFormats.forEach: audio or video by the MIME type
RECURSIVE adaptiveOf(_)
adaptiveOf(fs) ==
  IF fs = <<>> THEN <<>>
  ELSE LET f == Head(fs)
           isAudio == Truthy(f.mimeType) /\ includes(f.mimeType, <<"a","u","d","i","o">>)
       IN (IF Truthy(f.url)
           THEN <<[url |-> f.url,
                   quality |-> Or(Or(Or(f.qualityLabel, f.audioQuality), f.quality),
                                  <<"unknown">>),
                   mimeType |-> Or(f.mimeType, <<>>),
                   bitrate |-> f.bitrate,
                   type |-> IF isAudio THEN <<"audio">> ELSE <<"video">>,
                   hasAudio |-> isAudio, hasVideo |-> ~isAudio]>>
           ELSE <<>>) \o adaptiveOf(Tail(fs))

\* formats of lines 254-290
extractFormats(playerData) ==
  IF playerData.streamingData = <<>> THEN <<>>
  ELSE combinedOf(playerData.streamingData[1].formats)
       \o adaptiveOf(playerData.streamingData[1].adaptiveFormats)

\* a filter that keeps every format that has a URL, signed or not
needsOnlyUrl(f) == Truthy(f.url)

\* the filter of line 293: no signature needed
needsNoSignature(f) ==
  Truthy(f.url) /\ ~includes(f.url, <<"s","i","g","n","a","t","u","r","e">>) /\ ~includes(f.url, <<"&","s","=">>)

RECURSIVE filterAvailable(_)
filterAvailable(fs) ==
  IF fs = <<>> THEN <<>>
  ELSE (IF needsNoSignature(Head(fs)) THEN <<Head(fs)>> ELSE <<>>)
       \o filterAvailable(Tail(fs))

\* a filter by type that keeps every format
keepAllTypes(fs, type) == fs

\* filter(f => f.type === type)
RECURSIVE filterType(_, _)
filterType(fs, type) ==
  IF fs = <<>> THEN <<>>
  ELSE (IF Head(fs).type = type THEN <<Head(fs)>> ELSE <<>>)
       \o filterType(Tail(fs), type)

\* the comparator the other way round: ascending bitrate
compareBitrateAscending(a, b) == bitrateOr0(a) - bitrateOr0(b)

\* the comparator of line 319: negative when a sorts before b
compareBitrate(a, b) == bitrateOr0(b) - bitrateOr0(a)

\* x put into the sorted list after every element that does not sort after it
RECURSIVE insertSorted(_, _)
insertSorted(sorted, x) ==
  IF sorted = <<>> THEN <<x>>
  ELSE IF compareBitrate(Head(sorted), x) <= 0
  THEN <<Head(sorted)>> \o insertSorted(Tail(sorted), x)
  ELSE <<x>> \o sorted

\* Array.prototype.sort with compareBitrate: a stable sort
RECURSIVE sortByBitrate(_)
sortByBitrate(fs) ==
  IF fs = <<>> THEN <<>>
  ELSE insertSorted(sortByBitrate(SubSeq(fs, 1, Len(fs) - 1)), fs[Len(fs)])

\* the thumbnail download of lines 213-223
noMatchResult(videoInfo) ==
  [ResultBase EXCEPT
     !.success = TRUE,
     !.action = <<"download">>,
     !.download = Download(videoInfo.thumbnails.maxres,
                           <<"y","o","u","t","u","b","e","-">> \o videoInfo.id \o <<"-","t","h","u","m","b","n","a","i","l",".","j","p","g">>),
     !.message = <<"Could not extract video streams. Downloading thumbnail instead.\n\nFor full video download, use yt-dlp:\nyt-dlp \"https://youtube.com/watch?v=">>
                 \o videoInfo.id \o <<"\"">>,
     !.note = <<"YouTube stream extraction failed - page structure may have changed">>]

\* the thumbnail download of lines 299-312
signatureResult(videoInfo, title) ==
  [ResultBase EXCEPT
     !.success = TRUE,
     !.action = <<"download">>,
     !.download = Download(videoInfo.thumbnails.maxres, title \o <<"-","t","h","u","m","b","n","a","i","l",".","j","p","g">>),
     !.message = <<"Video streams require signature decryption (not available in browser).\n\nDownloading thumbnail instead.\n\nFor full video, use yt-dlp:\nyt-dlp -f \"bestaudio\" --extract-audio --audio-format mp3 \"https://youtube.com/watch?v=">>
                 \o videoInfo.id \o <<"\"">>,
     !.ytdlpCommand = <<"yt-dlp -x --audio-format mp3 \"https://youtube.com/watch?v=">>
                      \o videoInfo.id \o <<"\"">>]

\* the choice of lines 315-374 among the available formats
selectFormat(availableFormats, title) ==
  LET audioFormats == sortByBitrate(filterType(availableFormats, <<"audio">>))
      combinedFormats == filterType(availableFormats, <<"combined">>)
  IN IF Len(audioFormats) > 0
     THEN LET bestAudio == audioFormats[1]
              ext == IF includes(bestAudio.mimeType, <<"m","p","4">>) THEN <<".","m","4","a">> ELSE <<".","w","e","b","m">>
          IN [ResultBase EXCEPT
                !.success = TRUE,
                !.action = <<"download">>,
                !.download = Download(bestAudio.url, title \o ext),
                !.message = <<"Downloading audio: ">> \o title \o ext
                            \o <<"\n\nQuality: ">> \o bestAudio.quality,
                !.availableFormats = Len(availableFormats),
                !.note = <<"To convert to MP3, use: ffmpeg -i \"">> \o title \o ext
                         \o <<"\" \"">> \o title \o <<".mp3\"">>]
     ELSE IF Len(combinedFormats) > 0
     THEN LET best == combinedFormats[1]
          IN [ResultBase EXCEPT
                !.success = TRUE,
                !.action = <<"download">>,
                !.download = Download(best.url, title \o <<".","m","p","4">>),
                !.message = <<"Downloading video: ">> \o title
                            \o <<".mp4\n\nQuality: ">> \o best.quality,
                !.availableFormats = Len(availableFormats)]
     ELSE LET anyFormat == availableFormats[1]
          IN [ResultBase EXCEPT
                !.success = TRUE,
                !.action = <<"download">>,
                !.download = Download(anyFormat.url, title \o <<".","m","p","4">>),
                !.message = <<"Downloading: ">> \o title]

\* a check that lets every playability status through
neverUnplayable(playability) == FALSE

\* the test of line 236: playability && playability.status !== 'OK'
unplayable(playability) == playability # <<>> /\ playability[1].status # <<"OK">>

\* the try block of handleYouTube, from the response to its fetch
handleYouTubeTry(videoInfo, resp) ==
  IF resp.rejects THEN Throw(<<"Failed to fetch">>)
  ELSE IF ~resp.ok THEN Throw(<<"Failed to fetch YouTube page: ">> \o resp.status)
  ELSE IF resp.bodyFails THEN Throw(<<"network error">>)
  ELSE IF ~resp.html.match THEN Return(noMatchResult(videoInfo))
  ELSE IF ~resp.html.parses THEN Throw(<<"Failed to parse player data">>)
  ELSE
    LET playerData == resp.html.playerData
        playability == playerData.playabilityStatus
        title == videoTitle(playerData, videoInfo.id)
        availableFormats == filterAvailable(extractFormats(playerData))
    IN IF unplayable(playability)
       THEN Return(Failure(<<"Video not available: ">>
                           \o Or(playability[1].reason, playability[1].status)))
       ELSE IF Len(availableFormats) = 0
       THEN Return(signatureResult(videoInfo, title))
       ELSE Return(selectFormat(availableFormats, title))

\* a catch block that reports the failure instead of degrading
handleYouTubeCatchFails(videoInfo, message) == Failure(message)

\* the catch block of lines 376-389
handleYouTubeCatch(videoInfo, message) ==
  [ResultBase EXCEPT
     !.success = TRUE,
     !.action = <<"download">>,
     !.download = Download(videoInfo.thumbnails.maxres,
                           <<"y","o","u","t","u","b","e","-">> \o videoInfo.id \o <<"-","t","h","u","m","b","n","a","i","l",".","j","p","g">>),
     !.message = <<"Stream extraction failed: ">> \o message
                 \o <<"\n\nDownloading thumbnail instead.\n\nFor video download, use yt-dlp:\nyt-dlp \"https://youtube.com/watch?v=">>
                 \o videoInfo.id \o <<"\"">>,
     !.error = message]

\* handleYouTube with its try block alone: an error it throws leaves Run
handleYouTubeNoCatch(videoInfo, resp) ==
  [end |-> handleYouTubeTry(videoInfo, resp), caught |-> <<>>]

\* handleYouTube from the response on: how it ends, and the errors it caught
handleYouTube(videoInfo, resp) ==
  LET t == handleYouTubeTry(videoInfo, resp)
  IN IF t.kind = "throw"
     THEN [end |-> Return(handleYouTubeCatch(videoInfo, t.error)), caught |-> <<t.error>>]
     ELSE [end |-> t, caught |-> <<>>]

----------------------------------------------------------------------------
(* youtube-audio-downloader: Run                                           *)

\* the guards of lines 108-127 let Run through to its first fetch
YA_Fetches(d) ==
  /\ d.defined
  /\ ~Truthy(d.error)
  /\ ~(MissingList(d, "media") \/ Len(d.media) = 0)

\* Run when a guard of lines 108-127 returns
YA_Run(d) ==
  IF ~d.defined
  THEN Failure(<<"No data collected. Click \"Get Data\" first while on a YouTube video page.">>)
  ELSE IF Truthy(d.error) THEN Failure(d.error)
  ELSE Failure(<<"No media found. Make sure you are on a YouTube video page.">>)

\* a download result that does not ask where to save
YA_downloadNoSaveAs(u, filename, message, videoId) ==
  [ResultBase EXCEPT
     !.success = TRUE,
     !.action = <<"download">>,
     !.download = <<[url |-> u, filename |-> filename, saveAs |-> FALSE]>>,
     !.message = message,
     !.videoId = videoId,
     !.platform = s_YouTube]

\* { success: true, action: 'download', ... } of lines 186-197 and 226-237
YA_download(u, filename, message, videoId) ==
  [ResultBase EXCEPT
     !.success = TRUE,
     !.action = <<"download">>,
     !.download = Download(u, filename),
     !.message = message,
     !.videoId = videoId,
     !.platform = s_YouTube]

\* the outer try block, from the response of api.cobalt.tools on
YA_primaryTry(collectedData, resp) ==
  LET videoId == collectedData.videoId
      json == resp.json
      downloadUrl ==
        IF json.status = <<"tunnel">> \/ json.status = <<"redirect">> THEN json.url
        ELSE IF json.status = <<"stream">> THEN json.url
        ELSE IF Truthy(json.url) THEN json.url
        ELSE Null
      filename ==
        IF Truthy(json.filename)
        THEN IF ~endsWith(toLowerCase(json.filename), s_dot_mp3)
             THEN json.filename \o s_dot_mp3
             ELSE json.filename
        ELSE <<"y","o","u","t","u","b","e","-">> \o videoId \o s_dot_mp3
  IN IF resp.rejects THEN Throw(<<"Failed to fetch">>)
     ELSE IF ~resp.ok THEN Throw(<<"API request failed: ">> \o resp.status)
     ELSE IF resp.bodyFails THEN Throw(<<"Unexpected token < in JSON at position 0">>)
     ELSE IF json.status = <<"error">>
     THEN Throw(Or(json.text, <<"Failed to process video">>))
     ELSE IF ~Truthy(downloadUrl)
     THEN Throw(<<"Could not get download URL from API response">>)
     ELSE Return(YA_download(downloadUrl, filename,
                             <<"Downloading audio: ">> \o filename, videoId))

\* the inner try block, from the response of co.wuk.sh on
YA_fallbackTry(collectedData, resp) ==
  LET altData == resp.json
  IN IF resp.rejects THEN Throw(<<"Failed to fetch">>)
     ELSE IF ~resp.ok THEN Throw(<<"Backup API failed">>)
     ELSE IF resp.bodyFails THEN Throw(<<"Unexpected token < in JSON at position 0">>)
     ELSE IF altData.status = <<"error">>
     THEN Throw(Or(altData.text, <<"Backup API error">>))
     ELSE IF Truthy(altData.url)
     THEN Return(YA_download(altData.url,
                             <<"y","o","u","t","u","b","e","-">> \o collectedData.videoId \o s_dot_mp3,
                             <<"Downloading audio from YouTube">>,
                             collectedData.videoId))
     ELSE FallThrough

\* the return of lines 243-246
YA_giveUp(message) ==
  Failure(<<"Failed to get download URL: ">> \o message
          \o <<". The video may be unavailable or protected.">>)

\* Run giving up at the first error, with no fallback request
YA_afterPrimaryNoFallback(collectedData, resp) ==
  LET t == YA_primaryTry(collectedData, resp)
  IN IF t.kind = "throw"
     THEN [fetches |-> FALSE, end |-> Return(YA_giveUp(t.error)), caught |-> <<t.error>>]
     ELSE [fetches |-> FALSE, end |-> t, caught |-> <<>>]

\* Run from the first response on: it returns, or catches and fetches again
YA_afterPrimary(collectedData, resp) ==
  LET t == YA_primaryTry(collectedData, resp)
  IN IF t.kind = "throw"
     THEN [fetches |-> TRUE, end |-> t, caught |-> <<t.error>>]
     ELSE [fetches |-> FALSE, end |-> t, caught |-> <<>>]

\* Run from the second response on, error being the error of the outer catch
YA_afterFallback(collectedData, error, resp) ==
  LET t == YA_fallbackTry(collectedData, resp)
  IN IF t.kind = "return" THEN [end |-> t, caught |-> <<>>]
     ELSE IF t.kind = "throw"
     THEN [end |-> Return(YA_giveUp(error)), caught |-> <<t.error>>]
     ELSE [end |-> Return(YA_giveUp(error)), caught |-> <<>>]

----------------------------------------------------------------------------
(* The responses the network may give                                      *)

\* most adaptive formats of a player response, and the largest bitrate
MaxAdaptive == 2
MaxBitrate == 2

Titles == {Undefined, <<"M","y"," ","S","o","n","g","!"," ","(","l","i","v","e",")">>}

MimeAudioMp4 == <<"a","u","d","i","o","/","m","p","4",";"," ","c","o","d","e","c","s","=","m","p","4","a">>
MimeAudioWebm == <<"a","u","d","i","o","/","w","e","b","m",";"," ","c","o","d","e","c","s","=","o","p","u","s">>
MimeVideoMp4 == <<"v","i","d","e","o","/","m","p","4",";"," ","c","o","d","e","c","s","=","a","v","c","1">>

\* one entry of streamingData.formats or .adaptiveFormats as YouTube sends it
RawFormat(u, mime, bitrate) ==
  [url |-> u, mimeType |-> mime, bitrate |-> bitrate,
   qualityLabel |-> IF mime = MimeVideoMp4 THEN <<"720p">> ELSE Undefined,
   audioQuality |-> IF mime \in {MimeAudioMp4, MimeAudioWebm}
                    THEN <<"AUDIO_QUALITY_MEDIUM">> ELSE Undefined,
   quality |-> <<"medium">>]

\* stream URLs, told apart by their itag: direct, and two that need a signature
PlainUrl(i) == <<"h","t","t","p","s",":","/","/","g","v",".","e","x","a","m","p","l","e","/","v","p","?","i","t","a","g","=">> \o <<DIGITS[i + 1]>>
SignedUrl(i) == PlainUrl(i) \o <<"&","s","i","g","n","a","t","u","r","e","=","A","B">>
CipherUrl(i) == PlainUrl(i) \o <<"&","s","=","A","B">>

\* the formats that may stand at place i of adaptiveFormats
AdaptiveAt(i) ==
  {RawFormat(PlainUrl(i), m, b) :
     m \in {MimeAudioMp4, MimeAudioWebm, MimeVideoMp4, Undefined},
     b \in {-1} \cup (1..MaxBitrate)}
  \cup {RawFormat(SignedUrl(i), m, 1) : m \in {MimeAudioMp4, MimeVideoMp4}}
  \cup {RawFormat(CipherUrl(i), MimeAudioWebm, 1), RawFormat(Undefined, MimeAudioMp4, 1)}

RECURSIVE AdaptiveLists(_)
AdaptiveLists(n) ==
  IF n = 0 THEN {<<>>}
  ELSE AdaptiveLists(n - 1)
       \cup {Append(l, f) : l \in {x \in AdaptiveLists(n - 1) : Len(x) = n - 1},
                            f \in AdaptiveAt(n)}

CombinedLists ==
  {<<>>,
   <<RawFormat(PlainUrl(0), MimeVideoMp4, -1)>>,
   <<RawFormat(SignedUrl(9), MimeVideoMp4, -1)>>,
   <<RawFormat(SignedUrl(9), MimeVideoMp4, -1), RawFormat(PlainUrl(0), MimeVideoMp4, -1)>>}

PlayerData(playability, title, formats, adaptiveFormats) ==
  [playabilityStatus |-> playability,
   videoDetails |-> <<[title |-> title]>>,
   streamingData |-> <<[formats |-> formats, adaptiveFormats |-> adaptiveFormats]>>]

Playable == {<<>>, <<[status |-> <<"OK">>, reason |-> Undefined]>>}

Unplayable ==
  {<<[status |-> <<"ERROR">>, reason |-> <<"Video unavailable">>]>>,
   <<[status |-> <<"LOGIN_REQUIRED">>, reason |-> Undefined]>>,
   <<[status |-> Undefined, reason |-> Undefined]>>}

\* the player responses: every list of adaptive formats in a playable
\* response, and every playability, title and combined list over the lists
\* of at most one adaptive format
PlayerDatas ==
  {PlayerData(<<[status |-> <<"OK">>, reason |-> Undefined]>>, Undefined, c, a) :
     c \in {<<>>, <<RawFormat(SignedUrl(9), MimeVideoMp4, -1)>>},
     a \in AdaptiveLists(MaxAdaptive)}
  \cup {PlayerData(p, t, c, a) :
          p \in Playable, t \in Titles, c \in CombinedLists, a \in AdaptiveLists(1)}
  \cup {PlayerData(p, Undefined, c, a) :
          p \in Unplayable, c \in CombinedLists, a \in AdaptiveLists(1)}
  \cup {[NoPlayerData EXCEPT !.playabilityStatus = p] : p \in Playable \cup Unplayable}

Parsed(playerData) == HtmlBody([match |-> TRUE, parses |-> TRUE, playerData |-> playerData])

\* the failures of the watch-page fetch and of the extraction
YTFailures ==
  {Rejected, NotOk(<<"429">>), BodyFails, HtmlBody(NoHtml),
   HtmlBody([NoHtml EXCEPT !.match = TRUE])}

YTResponses == YTFailures \cup {Parsed(pd) : pd \in PlayerDatas}

\* a few of them, for the runs that start from every URL
YTResponsesFew ==
  YTFailures
  \cup {Parsed(PlayerData(<<>>, Undefined, <<>>,
                          <<RawFormat(PlainUrl(1), MimeAudioMp4, 1)>>)),
        Parsed(PlayerData(<<>>, Undefined, <<>>,
                          <<RawFormat(SignedUrl(1), MimeAudioMp4, 1)>>)),
        Parsed(PlayerData(<<[status |-> <<"ERROR">>, reason |-> Undefined]>>,
                          Undefined, <<>>, <<>>))}

\* the JSON bodies of api.cobalt.tools
PrimaryJsons ==
  {[status |-> <<"error">>, text |-> t, url |-> u, filename |-> Undefined] :
     t \in {Undefined, <<"rate limited">>},
     u \in {Undefined, <<"h","t","t","p","s",":","/","/","d","l",".","e","x","a","m","p","l","e","/","a">>}}
  \cup {[status |-> s, text |-> Undefined, url |-> u, filename |-> f] :
          s \in {<<"tunnel">>, <<"redirect">>, <<"stream">>, <<"picker">>, Undefined},
          u \in {Undefined, <<"h","t","t","p","s",":","/","/","d","l",".","e","x","a","m","p","l","e","/","a">>},
          f \in {Undefined, <<"s","o","n","g",".","m","p","3">>, <<"S","o","n","g",".","M","P","3">>, <<"s","o","n","g">>}}

PrimaryResponses ==
  {Rejected, NotOk(<<"500">>), BodyFails} \cup {JsonBody(j) : j \in PrimaryJsons}

\* the JSON bodies of co.wuk.sh
FallbackJsons ==
  {[status |-> s, text |-> t, url |-> u, filename |-> Undefined] :
     s \in {<<"error">>, <<"stream">>},
     t \in {Undefined, <<"rate limited">>},
     u \in {Undefined, <<"h","t","t","p","s",":","/","/","d","l",".","e","x","a","m","p","l","e","/","b">>}}

FallbackResponses ==
  {Rejected, NotOk(<<"500">>), BodyFails} \cup {JsonBody(j) : j \in FallbackJsons}

\* a few of both, for the runs that start from every URL
PrimaryResponsesFew ==
  {Rejected, NotOk(<<"500">>), BodyFails,
   JsonBody([status |-> <<"error">>, text |-> <<"rate limited">>, url |-> Undefined,
             filename |-> Undefined]),
   JsonBody([status |-> <<"tunnel">>, text |-> Undefined, url |-> Undefined,
             filename |-> Undefined]),
   JsonBody([status |-> <<"tunnel">>, text |-> Undefined,
             url |-> <<"h","t","t","p","s",":","/","/","d","l",".","e","x","a","m","p","l","e","/","a">>, filename |-> <<"s","o","n","g",".","m","p","3">>]),
   JsonBody([status |-> <<"stream">>, text |-> Undefined,
             url |-> <<"h","t","t","p","s",":","/","/","d","l",".","e","x","a","m","p","l","e","/","a">>, filename |-> Undefined])}

FallbackResponsesFew ==
  {Rejected, NotOk(<<"500">>), BodyFails,
   JsonBody([status |-> <<"error">>, text |-> <<"rate limited">>, url |-> Undefined,
             filename |-> Undefined]),
   JsonBody([status |-> <<"stream">>, text |-> Undefined, url |-> Undefined,
             filename |-> Undefined]),
   JsonBody([status |-> <<"stream">>, text |-> Undefined,
             url |-> <<"h","t","t","p","s",":","/","/","d","l",".","e","x","a","m","p","l","e","/","b">>, filename |-> Undefined])}

----------------------------------------------------------------------------
(* The host: it is on a page, may click "Get Data" (DataCollector) and     *)
(* clicks "Run CD" (Run) with what it holds: nothing, the collected data,  *)
(* or the collected data with an error recorded in it.                     *)

\* the URLs for the component that does not look into them
FewUrls == {s_https \o <<"e","x","a","m","p","l","e",".","c","o","m","/","c","l","i","p",".","m","p","4">>, <<"e","x","a","m","p","l","e",".","c","o","m">>, <<>>, Undefined}

Init ==
  /\ comp \in Components
  /\ hostUrl \in (IF comp = P1 THEN ValidUrls
                  ELSE IF comp = RS THEN FewUrls
                  ELSE Urls)
  /\ dom \in (IF comp = P1 THEN Pages ELSE {NoPage})
  /\ clock = 1
  /\ collected = NoData
  /\ runArg = NoData
  /\ pc = "idle"
  /\ requests = <<>>
  /\ responses = <<>>
  /\ caught = <<>>
  /\ domReads = 0
  /\ anchor = <<>>
  /\ opened = <<>>
  /\ returned = ResultBase
  /\ other = [pc |-> "idle", runArg |-> NoData, requests |-> <<>>,
              responses |-> <<>>, caught |-> <<>>, returned |-> ResultBase]

\* "Get Data" on component c returns d
Collect(c, d) ==
  /\ comp = c
  /\ pc = "idle"
  /\ collected' = d
  /\ pc' = "collected"
  /\ UNCHANGED <<comp, hostUrl, dom, clock, runArg, requests, responses, caught,
                 anchor, opened, returned, other>>

RS_GetData == Collect(RS, RS_DataCollector(hostUrl, clock)) /\ UNCHANGED domReads
YA_GetData == Collect(YA, YA_DataCollector(hostUrl, clock)) /\ UNCHANGED domReads
MD_GetData == Collect(MD, MD_DataCollector(hostUrl, clock)) /\ UNCHANGED domReads
P0_GetData == Collect(P0, P0_DataCollector(hostUrl, clock)) /\ UNCHANGED domReads
TD_GetData == Collect(TD, TD_DataCollector(hostUrl)) /\ UNCHANGED domReads
P1_GetData == Collect(P1, P1_DataCollector(hostUrl, dom)) /\ domReads' = domReads + 1

\* what the host may pass to Run
RunArgs ==
  IF pc = "idle" THEN {NoData}
  ELSE {collected, [collected EXCEPT !.error = <<"error recorded by the host">>]}

\* a Run that stamps the data object it was given (no Run of the source does)
RunReturnsStamping(c, a, r) ==
  /\ comp = c
  /\ pc \in {"idle", "collected"}
  /\ runArg' = a
  /\ returned' = r
  /\ pc' = "done"
  /\ collected' = [collected EXCEPT !.timestamp = 0]
  /\ UNCHANGED <<comp, hostUrl, dom, clock, requests, responses, caught, other>>

\* Run of component c is called with a and returns r at once
RunReturns(c, a, r) ==
  /\ comp = c
  /\ pc \in {"idle", "collected"}
  /\ runArg' = a
  /\ returned' = r
  /\ pc' = "done"
  /\ UNCHANGED <<comp, hostUrl, dom, clock, collected, requests, responses, caught,
                 other>>

\* Run of component c is called with a and awaits fetch(u)
RunFetches(c, a, u) ==
  /\ comp = c
  /\ pc \in {"idle", "collected"}
  /\ runArg' = a
  /\ requests' = <<u>>
  /\ pc' = "awaitPrimary"
  /\ UNCHANGED <<comp, hostUrl, dom, clock, collected, responses, caught, returned,
                 other>>

\* the promise of Run settles: it resolves with a result or rejects
Settle(end) ==
  IF end.kind = "return"
  THEN returned' = end.value /\ pc' = "done"
  ELSE returned' = returned /\ pc' = "threw"

RS_RunCall ==
  /\ \E a \in RunArgs : RunReturns(RS, a, RS_Run(a))
  /\ UNCHANGED <<domReads, anchor, opened>>

TD_RunCall ==
  /\ \E a \in RunArgs : RunReturns(TD, a, TD_Run(a))
  /\ UNCHANGED <<domReads, anchor, opened>>

MD_RunCall ==
  /\ \E a \in RunArgs : RunReturns(MD, a, MD_Run(a))
  /\ UNCHANGED <<domReads, anchor, opened>>

P1_RunCall ==
  \E a \in RunArgs :
    LET o == P1_Run(a, hostUrl, dom)
    IN /\ RunReturns(P1, a, o.value)
       /\ anchor' = o.anchors
       /\ opened' = o.opens
       /\ domReads' = domReads + (IF o.collects THEN 1 ELSE 0)
                      + Len(o.anchors) + Len(o.opens)

P0_RunCall ==
  /\ \E a \in RunArgs :
       IF P0_RunsYouTube(a)
       THEN RunFetches(P0, a, s_watch_v \o a.videoInfo[1].id)
       ELSE RunReturns(P0, a, P0_Run(a))
  /\ UNCHANGED <<domReads, anchor, opened>>

\* the watch page fetch of handleYouTube settles with one of the responses R
P0_FetchResponds(R) ==
  /\ comp = P0
  /\ pc = "awaitPrimary"
  /\ \E resp \in R :
       LET h == handleYouTube(runArg.videoInfo[1], resp)
       IN /\ responses' = Append(responses, resp)
          /\ caught' = caught \o h.caught
          /\ Settle(h.end)
  /\ UNCHANGED <<comp, hostUrl, dom, clock, collected, runArg, requests, domReads,
                 anchor, opened, other>>

YA_RunCall ==
  /\ \E a \in RunArgs :
       IF YA_Fetches(a)
       THEN RunFetches(YA, a, <<"h","t","t","p","s",":","/","/","a","p","i",".","c","o","b","a","l","t",".","t","o","o","l","s","/">>)
       ELSE RunReturns(YA, a, YA_Run(a))
  /\ UNCHANGED <<domReads, anchor, opened>>

\* the fetch of api.cobalt.tools settles with one of the responses R
YA_PrimaryResponds(R) ==
  /\ comp = YA
  /\ pc = "awaitPrimary"
  /\ \E resp \in R :
       LET p == YA_afterPrimary(runArg, resp)
       IN /\ responses' = Append(responses, resp)
          /\ caught' = caught \o p.caught
          /\ IF p.fetches
             THEN /\ requests' = Append(requests, <<"h","t","t","p","s",":","/","/","c","o",".","w","u","k",".","s","h","/","a","p","i","/","j","s","o","n">>)
                  /\ pc' = "awaitFallback"
                  /\ returned' = returned
             ELSE /\ requests' = requests
                  /\ Settle(p.end)
  /\ UNCHANGED <<comp, hostUrl, dom, clock, collected, runArg, domReads, anchor, opened,
                 other>>

\* the fetch of co.wuk.sh settles with one of the responses R
YA_FallbackResponds(R) ==
  /\ comp = YA
  /\ pc = "awaitFallback"
  /\ \E resp \in R :
       LET f == YA_afterFallback(runArg, caught[1], resp)
       IN /\ responses' = Append(responses, resp)
          /\ caught' = caught \o f.caught
          /\ Settle(f.end)
  /\ UNCHANGED <<comp, hostUrl, dom, clock, collected, runArg, requests, domReads,
                 anchor, opened, other>>

Next ==
  \/ RS_GetData \/ YA_GetData \/ MD_GetData \/ P0_GetData \/ TD_GetData \/ P1_GetData
  \/ RS_RunCall \/ TD_RunCall \/ MD_RunCall \/ P1_RunCall
  \/ P0_RunCall \/ P0_FetchResponds(YTResponsesFew)
  \/ YA_RunCall \/ YA_PrimaryResponds(PrimaryResponsesFew)
  \/ YA_FallbackResponds(FallbackResponsesFew)

Spec == Init /\ [][Next]_vars

(* The two runners that use the network, on every response: the host is on *)
(* a watch page or on a short, and drives the stream-extracting            *)
(* media-downloader (handleYouTube) or the youtube-audio-downloader.       *)

YTUrls ==
  {s_https \o <<"w","w","w",".","y","o","u","t","u","b","e",".","c","o","m","/","w","a","t","c","h","?","v","=">> \o VideoId(1),
   s_https \o <<"w","w","w",".","y","o","u","t","u","b","e",".","c","o","m","/","s","h","o","r","t","s","/">> \o VideoId(1)}

InitYT == Init /\ comp \in {P0, YA} /\ hostUrl \in YTUrls

NextYT ==
  \/ P0_GetData \/ P0_RunCall \/ P0_FetchResponds(YTResponses)
  \/ YA_GetData \/ YA_RunCall \/ YA_PrimaryResponds(PrimaryResponses)
  \/ YA_FallbackResponds(FallbackResponses)

SpecYT == InitYT /\ [][NextYT]_vars

(* Two invocations of one component.  JavaScript runs one invocation at a  *)
(* time and may turn to another one whenever the running one awaits or has *)
(* returned; the host may also go to another page in between.  The         *)
(* invocation not running is kept in other.                                *)

\* the invocation set aside runs on, and the running one is set aside
Switch ==
  /\ other' = [pc |-> pc, runArg |-> runArg, requests |-> requests,
               responses |-> responses, caught |-> caught, returned |-> returned]
  /\ pc' = other.pc
  /\ runArg' = other.runArg
  /\ requests' = other.requests
  /\ responses' = other.responses
  /\ caught' = other.caught
  /\ returned' = other.returned
  /\ UNCHANGED <<comp, hostUrl, dom, clock, collected, domReads, anchor, opened>>

\* the pages of the host in the runs of two invocations
TwoUrls ==
  {s_https \o <<"w","w","w",".","y","o","u","t","u","b","e",".","c","o","m","/","w","a","t","c","h","?","v","=">> \o VideoId(1),
   s_https \o <<"y","o","u","t","u",".","b","e","/">> \o VideoId(2),
   s_https \o <<"e","x","a","m","p","l","e",".","c","o","m","/","c","l","i","p",".","m","p","4">>}

\* the host goes to another page
Navigate ==
  /\ hostUrl' \in TwoUrls
  /\ dom' \in (IF comp = P1 THEN Pages ELSE {NoPage})
  /\ <<hostUrl', dom'>> # <<hostUrl, dom>>
  /\ UNCHANGED <<comp, clock, collected, runArg, pc, requests, responses, caught,
                 domReads, anchor, opened, returned, other>>

\* the responses to the requests of two invocations
TwoYTResponses ==
  {Rejected,
   Parsed(PlayerData(<<>>, Undefined, <<>>, <<RawFormat(PlainUrl(1), MimeAudioMp4, 1)>>))}

TwoPrimaryResponses ==
  {Rejected,
   JsonBody([status |-> <<"tunnel">>, text |-> Undefined,
             url |-> <<"h","t","t","p","s",":","/","/","d","l",".","e","x","a","m","p","l","e","/","a">>, filename |-> <<"s","o","n","g",".","m","p","3">>])}

TwoFallbackResponses ==
  {Rejected,
   JsonBody([status |-> <<"stream">>, text |-> Undefined,
             url |-> <<"h","t","t","p","s",":","/","/","d","l",".","e","x","a","m","p","l","e","/","b">>, filename |-> Undefined])}

InitTwo ==
  /\ comp \in Components
  /\ hostUrl \in TwoUrls
  /\ dom \in (IF comp = P1 THEN Pages ELSE {NoPage})
  /\ clock = 1
  /\ collected = NoData
  /\ runArg = NoData
  /\ pc = "idle"
  /\ requests = <<>>
  /\ responses = <<>>
  /\ caught = <<>>
  /\ domReads = 0
  /\ anchor = <<>>
  /\ opened = <<>>
  /\ returned = ResultBase
  /\ other = [pc |-> "idle", runArg |-> NoData, requests |-> <<>>,
              responses |-> <<>>, caught |-> <<>>, returned |-> ResultBase]

NextTwo ==
  \/ RS_GetData \/ YA_GetData \/ MD_GetData \/ P0_GetData \/ TD_GetData \/ P1_GetData
  \/ RS_RunCall \/ TD_RunCall \/ MD_RunCall \/ P1_RunCall
  \/ P0_RunCall \/ P0_FetchResponds(TwoYTResponses)
  \/ YA_RunCall \/ YA_PrimaryResponds(TwoPrimaryResponses)
  \/ YA_FallbackResponds(TwoFallbackResponses)
  \/ Switch \/ Navigate

SpecTwo == InitTwo /\ [][NextTwo]_vars

----------------------------------------------------------------------------
(* Properties.  Run has returned when pc = "done" and has thrown (its       *)
(* promise rejected) when pc = "threw".                                    *)

RunEnded == pc \in {"done", "threw"}

\* Run was called with the very data DataCollector returned
RoundTrip == runArg.defined /\ runArg = collected

\* the path of URL u ends in one of the extensions exts
PathEndsIn(u, exts) ==
  /\ Truthy(u)
  /\ URLValid(u)
  /\ \E k \in DOMAIN exts : endsWith(URLPathname(u), exts[k])

\* the last segment of the path of URL u
LastPathSegment(u) ==
  LET path == URLPathname(u)
  IN substring(path, lastIndexOf(path, <<"/">>) + 1)

\* the host of URL u is domain d or a subdomain of it
HostIs(u, d) ==
  /\ Truthy(u)
  /\ URLValid(u)
  /\ (URLHostname(u) = d \/ endsWith(URLHostname(u), <<".">> \o d))

\* C1: in every component, Run(undefined) returns without throwing a result
\* with success = false, and performs no network request, no DOM access and
\* no window action.
C1_RunUndefinedFails ==
  (RunEnded /\ ~runArg.defined)
  => /\ pc = "done"
     /\ returned.success = FALSE
     /\ requests = <<>>
     /\ domReads = 0
     /\ anchor = <<>>
     /\ opened = <<>>

\* C2: in every component, Run on data whose error field is set returns a
\* result with success = false that carries that error, whatever the other
\* fields hold, issues no network request and opens no download.
C2_RunErroredFails ==
  (RunEnded /\ runArg.defined /\ Truthy(runArg.error))
  => /\ pc = "done"
     /\ returned.success = FALSE
     /\ returned.error = runArg.error
     /\ returned.download = <<>>
     /\ requests = <<>>
     /\ anchor = <<>>
     /\ opened = <<>>

\* C3 as stated: no Run throws or rejects, and whenever an error was caught
\* inside the runner the result has success = false and an error message.
C3_CaughtMeansFailure ==
  /\ pc # "threw"
  /\ (pc = "done" /\ caught # <<>>)
       => (returned.success = FALSE /\ Truthy(returned.error))

\* the maxres thumbnail of the video Run was called for
MaxresOfRun == s_img_vi \o runArg.videoInfo[1].id \o s_maxresdefault

\* C3, amended: no Run throws or rejects.  When handleYouTube caught an error
\* the result is the successful download of the maxres thumbnail and carries
\* the message of the error; when the youtube-audio-downloader caught one the
\* result is either the download the fallback API gave, or success = false
\* with an error message that quotes the error of the primary request.
C3_CaughtIsReported ==
  /\ pc # "threw"
  /\ (pc = "done" /\ caught # <<>>)
       => IF comp = P0
          THEN /\ returned.success
               /\ returned.action = <<"download">>
               /\ returned.download # <<>>
               /\ returned.download[1].url = MaxresOfRun
               /\ returned.error = caught[1]
          ELSE /\ comp = YA
               /\ Len(responses) = 2
               /\ IF returned.success
                  THEN /\ Len(caught) = 1
                       /\ Truthy(responses[2].json.url)
                       /\ returned.download # <<>>
                       /\ returned.download[1].url = responses[2].json.url
                  ELSE returned.error
                       = <<"Failed to get download URL: ">> \o caught[1]
                         \o <<". The video may be unavailable or protected.">>

\* the watch page could not be fetched, handleYouTube caught that and Run
\* returned the thumbnail
C3_Witness ==
  /\ comp = P0
  /\ pc = "done"
  /\ caught # <<>>
  /\ responses[1].rejects
  /\ returned.success
  /\ returned.error = <<"Failed to fetch">>

\* C4: in both media-downloader variants, Run(DataCollector(url)) for a URL
\* whose path ends in a listed audio or video extension returns success =
\* true with action "download", download.filename the last path segment of
\* the URL and download.url the URL unchanged.
C4_DirectMediaRoundTrip ==
  \A c \in {MD, P0} :
    LET exts == IF c = MD THEN MD_MEDIA_EXTENSIONS ELSE P0_MEDIA_EXTENSIONS
    IN (comp = c /\ pc = "done" /\ RoundTrip
        /\ PathEndsIn(hostUrl, exts.audio \o exts.video))
       => /\ returned.success
          /\ returned.action = <<"download">>
          /\ returned.download # <<>>
          /\ returned.download[1].filename = LastPathSegment(hostUrl)
          /\ returned.download[1].url = hostUrl

\* C5: in both media-downloader collectors, a URL whose path ends in .m3u8
\* or .mpd, whatever its host and query, is collected with the error field
\* set, no candidate and no videoInfo, and the Run that follows returns
\* success = false.
C5_ManifestIsError ==
  (comp \in {MD, P0} /\ collected.defined
   /\ PathEndsIn(hostUrl, << <<".","m","3","u","8">>, <<".","m","p","d">> >>))
  => /\ Truthy(collected.error)
     /\ collected.candidates = <<>>
     /\ collected.videoInfo = <<>>
     /\ (RunEnded /\ RoundTrip) => (pc = "done" /\ returned.success = FALSE)

\* C6: in both media-downloader collectors, a URL on one of the DRM-listed
\* hosts is collected with the error field set and no candidate, whatever
\* its path.
C6_DrmHostIsError ==
  (comp \in {MD, P0} /\ collected.defined
   /\ \E k \in DOMAIN drmSites : HostIs(hostUrl, drmSites[k]))
  => /\ Truthy(collected.error)
     /\ collected.candidates = <<>>

\* the YouTube URLs of the four shapes for video id
YouTubeShapes(id) ==
  {s_https \o <<"w","w","w",".">> \o s_youtube_com_watch \o <<"?","v","=">> \o id,
   s_https \o s_youtu_be_slash \o id,
   s_https \o <<"w","w","w",".">> \o s_youtube_com_embed \o id,
   s_https \o <<"w","w","w",".">> \o s_youtube_com_shorts \o id}

\* the video ID each collector that handles YouTube extracts from URL u
ExtractedIds(u, d, t) ==
  LET p0 == P0_DataCollector(u, t)
  IN <<YA_DataCollector(u, t).videoId,
       TD_DataCollector(u).videoId,
       P1_DataCollector(u, d).videoId,
       IF p0.videoInfo = <<>> THEN Null ELSE p0.videoInfo[1].id>>

\* C7: from a YouTube URL of each of the four shapes the
\* youtube-audio-downloader, both thumbnail-downloaders and the
\* stream-extracting media-downloader extract a video ID, the same in all.
C7_SameVideoId ==
  \A id \in VideoIds :
    (pc = "collected" /\ hostUrl \in YouTubeShapes(id))
    => \A k \in 1..4 : ExtractedIds(hostUrl, dom, clock)[k] = id

\* the response to the watch page fetch that Run got
WatchResponse == responses[1]

\* handleYouTube returned, and had parsed a player response that is playable
ParsedPlayable ==
  /\ comp = P0
  /\ pc = "done"
  /\ Len(responses) = 1
  /\ ~WatchResponse.rejects
  /\ WatchResponse.ok
  /\ ~WatchResponse.bodyFails
  /\ WatchResponse.html.match
  /\ WatchResponse.html.parses
  /\ LET playability == WatchResponse.html.playerData.playabilityStatus
     IN playability = <<>> \/ playability[1].status = <<"OK">>

\* streamingData.formats and .adaptiveFormats of the player response
CombinedRaw ==
  LET sd == WatchResponse.html.playerData.streamingData
  IN IF sd = <<>> THEN <<>> ELSE sd[1].formats

AdaptiveRaw ==
  LET sd == WatchResponse.html.playerData.streamingData
  IN IF sd = <<>> THEN <<>> ELSE sd[1].adaptiveFormats

\* the URL needs a signature
SignatureBearing(u) ==
  includes(u, <<"s","i","g","n","a","t","u","r","e">>) \/ includes(u, <<"&","s","=">>)

\* every format of the response that has a URL is signature-bearing
OnlySigned ==
  \A k \in DOMAIN (CombinedRaw \o AdaptiveRaw) :
    LET f == (CombinedRaw \o AdaptiveRaw)[k]
    IN Truthy(f.url) => SignatureBearing(f.url)

\* C8: when the player response is playable and every format that has a URL
\* is signature-bearing, handleYouTube returns success = true, the download
\* of the maxres thumbnail of the video and the yt-dlp command, and no
\* stream URL.
C8_SignedOnlyGivesThumbnail ==
  (ParsedPlayable /\ OnlySigned)
  => /\ returned.success
     /\ returned.action = <<"download">>
     /\ returned.download # <<>>
     /\ returned.download[1].url = MaxresOfRun
     /\ Truthy(returned.ytdlpCommand)
     /\ \A k \in DOMAIN (CombinedRaw \o AdaptiveRaw) :
          returned.download[1].url # (CombinedRaw \o AdaptiveRaw)[k].url

\* a playable response whose formats have URLs, all of them signed
C8_Witness ==
  /\ ParsedPlayable
  /\ OnlySigned
  /\ \E k \in DOMAIN AdaptiveRaw : Truthy(AdaptiveRaw[k].url)
  /\ \E k \in DOMAIN CombinedRaw : Truthy(CombinedRaw[k].url)
  /\ returned.download[1].url = MaxresOfRun

\* the places of adaptiveFormats that hold an audio format that survives
\* the signature filter
SurvivingAudio ==
  {k \in DOMAIN AdaptiveRaw :
     /\ Truthy(AdaptiveRaw[k].url)
     /\ ~SignatureBearing(AdaptiveRaw[k].url)
     /\ Truthy(AdaptiveRaw[k].mimeType)
     /\ includes(AdaptiveRaw[k].mimeType, <<"a","u","d","i","o">>)}

\* the bitrate at place k, a missing one counting as 0
BitrateAt(k) == IF AdaptiveRaw[k].bitrate = -1 THEN 0 ELSE AdaptiveRaw[k].bitrate

\* C9: when an audio format survives the signature filter, handleYouTube
\* downloads the URL of a surviving audio format of maximal bitrate (a
\* missing bitrate counting as 0), the first such in the order of
\* adaptiveFormats.
C9_BestAudioFirstOfMax ==
  (ParsedPlayable /\ SurvivingAudio # {})
  => /\ returned.success
     /\ returned.download # <<>>
     /\ \E k \in SurvivingAudio :
          /\ \A j \in SurvivingAudio : BitrateAt(j) <= BitrateAt(k)
          /\ \A j \in SurvivingAudio : BitrateAt(j) = BitrateAt(k) => k <= j
          /\ returned.download[1].url = AdaptiveRaw[k].url

\* two audio formats survive, the second has the larger bitrate and is the
\* one downloaded
C9_Witness ==
  /\ ParsedPlayable
  /\ SurvivingAudio = {1, 2}
  /\ BitrateAt(1) < BitrateAt(2)
  /\ returned.download[1].url = AdaptiveRaw[2].url

\* the primary path of a runner failed, by its first response
PrimaryFailed ==
  LET r == responses[1]
  IN \/ r.rejects
     \/ ~r.ok
     \/ r.bodyFails
     \/ IF comp = YA
        THEN r.json.status = <<"error">> \/ ~Truthy(r.json.url)
        ELSE ~r.html.match \/ ~r.html.parses

\* the requests are the primary one, then at most the fallback one
PrimaryFirst ==
  /\ Len(requests) <= 2
  /\ requests # <<>> =>
       requests[1] = (IF comp = YA THEN <<"h","t","t","p","s",":","/","/","a","p","i",".","c","o","b","a","l","t",".","t","o","o","l","s","/">>
                      ELSE s_watch_v \o runArg.videoInfo[1].id)

\* C10 as stated: a runner that uses the network issues its primary request
\* first, exactly one fallback request when the primary path failed and none
\* when it succeeded, and never more than two requests.
C10_OneFallbackOnFailure ==
  /\ PrimaryFirst
  /\ (comp \in {YA, P0} /\ pc = "done" /\ requests # <<>>)
       => Len(requests) = (IF PrimaryFailed THEN 2 ELSE 1)

\* C10, amended: both runners issue their primary request first and never
\* more than two requests.  The youtube-audio-downloader issues exactly one
\* fallback request, to co.wuk.sh, when the primary path failed and none
\* when it succeeded.  handleYouTube issues its one request and no other:
\* when that fails its fallback is the download of the maxres thumbnail,
\* returned with success = true.
C10_FallbackRequestInAudioOnly ==
  /\ PrimaryFirst
  /\ (comp = YA /\ pc = "done" /\ requests # <<>>)
       => /\ Len(requests) = (IF PrimaryFailed THEN 2 ELSE 1)
          /\ PrimaryFailed =>
               requests[2] = <<"h","t","t","p","s",":","/","/","c","o",".","w","u","k",".","s","h","/","a","p","i","/","j","s","o","n">>
  /\ (comp = P0 /\ pc = "done" /\ requests # <<>>)
       => /\ Len(requests) = 1
          /\ PrimaryFailed =>
               /\ returned.success
               /\ returned.download # <<>>
               /\ returned.download[1].url = MaxresOfRun

\* the primary request of the youtube-audio-downloader was rejected, the
\* fallback request was issued and answered, and Run returned
C10_Witness ==
  /\ comp = YA
  /\ pc = "done"
  /\ Len(requests) = 2
  /\ Len(responses) = 2
  /\ responses[1].rejects

\* handleYouTube returned, and had parsed a player response
WatchParsed ==
  /\ comp = P0
  /\ pc = "done"
  /\ Len(responses) = 1
  /\ ~WatchResponse.rejects
  /\ WatchResponse.ok
  /\ ~WatchResponse.bodyFails
  /\ WatchResponse.html.match
  /\ WatchResponse.html.parses

\* playabilityStatus of the parsed player response: absent, or one object
PlayabilityOfRun == WatchResponse.html.playerData.playabilityStatus

\* C11 as stated: when the parsed player response has no
\* playabilityStatus.status equal to 'OK' (another value, or none),
\* handleYouTube returns success = false with an error message and no
\* download.
C11_NotOkIsError ==
  (WatchParsed /\ ~(PlayabilityOfRun # <<>> /\ PlayabilityOfRun[1].status = <<"OK">>))
  => /\ returned.success = FALSE
     /\ Truthy(returned.error)
     /\ returned.download = <<>>

\* C11, amended: when the parsed player response has a playabilityStatus
\* whose status is not 'OK' (another value, or none), handleYouTube returns
\* success = false, no action and no download, and the error "Video not
\* available: " followed by the reason, or by the status when there is no
\* reason; a response without playabilityStatus is taken as playable and
\* gives a successful download.
C11_PresentNotOkIsError ==
  /\ (WatchParsed /\ PlayabilityOfRun # <<>> /\ PlayabilityOfRun[1].status # <<"OK">>)
       => /\ returned.success = FALSE
          /\ returned.error
             = <<"Video not available: ">>
               \o (IF Truthy(PlayabilityOfRun[1].reason)
                   THEN PlayabilityOfRun[1].reason
                   ELSE PlayabilityOfRun[1].status)
          /\ returned.action = Undefined
          /\ returned.download = <<>>
  /\ (WatchParsed /\ PlayabilityOfRun = <<>>)
       => /\ returned.success
          /\ returned.action = <<"download">>
          /\ returned.download # <<>>

\* the player response says ERROR with a reason, stream URLs are at hand,
\* and Run returned the error
C11_Witness ==
  /\ WatchParsed
  /\ PlayabilityOfRun # <<>>
  /\ PlayabilityOfRun[1].status = <<"ERROR">>
  /\ PlayabilityOfRun[1].reason = <<"Video unavailable">>
  /\ \E k \in DOMAIN AdaptiveRaw : Truthy(AdaptiveRaw[k].url) /\ ~SignatureBearing(AdaptiveRaw[k].url)
  /\ returned.success = FALSE
  /\ returned.error = <<"Video not available: ", "Video unavailable">>

\* the extraction of handleYouTube failed: the fetch was rejected or not OK,
\* the body could not be read, no ytInitialPlayerResponse was matched, or
\* the matched text is no JSON
ExtractionFailed ==
  /\ comp = P0
  /\ pc = "done"
  /\ Len(responses) = 1
  /\ \/ WatchResponse.rejects
     \/ ~WatchResponse.ok
     \/ WatchResponse.bodyFails
     \/ ~WatchResponse.html.match
     \/ ~WatchResponse.html.parses

\* C12: when the watch page has no ytInitialPlayerResponse, or its text
\* fails JSON parsing, or the fetch fails or is not OK, handleYouTube
\* returns success = true, action "download", the maxres thumbnail of the
\* video as download.url, and a message.
C12_FailureGivesThumbnail ==
  ExtractionFailed
  => /\ returned.success
     /\ returned.action = <<"download">>
     /\ returned.download # <<>>
     /\ returned.download[1].url = MaxresOfRun
     /\ Truthy(returned.message)

\* the page matched but its player response is no JSON: the error was
\* caught and the thumbnail returned
C12_Witness ==
  /\ ExtractionFailed
  /\ WatchResponse.ok
  /\ WatchResponse.html.match
  /\ ~WatchResponse.html.parses
  /\ caught = << <<"Failed to parse player data">> >>
  /\ returned.download[1].url = MaxresOfRun

\* URL u is on a DRM-listed domain
OnDrmHost(u) == \E k \in DOMAIN drmSites : HostIs(u, drmSites[k])

\* URL u is on a host component c knows nothing of: not YouTube, not DRM-listed
\* and, for the media-downloaders, not the URL of a media file
OnUnknownHost(c, u) ==
  /\ Truthy(u)
  /\ URLValid(u)
  /\ ~HostIs(u, s_youtube_com)
  /\ ~HostIs(u, s_youtu_be)
  /\ ~OnDrmHost(u)
  /\ \/ c = YA
     \/ LET exts == IF c = MD THEN MD_MEDIA_EXTENSIONS ELSE P0_MEDIA_EXTENSIONS
            all == exts.audio \o exts.video \o exts.stream
        IN \A k \in DOMAIN all : ~endsWith(toLowerCase(URLPathname(u)), all[k])

\* C13: in both media-downloaders and in the youtube-audio-downloader, for a
\* URL on an unknown host or on a DRM-listed domain, DataCollector then Run
\* ends with success = false and an error message, and no network request
\* is issued at any point.
C13_UnknownOrDrmNoNetwork ==
  (comp \in {MD, P0, YA} /\ collected.defined
   /\ (OnDrmHost(hostUrl) \/ OnUnknownHost(comp, hostUrl)))
  => /\ requests = <<>>
     /\ (pc \notin {"idle", "collected"} /\ RoundTrip)
          => /\ pc = "done"
             /\ returned.success = FALSE
             /\ Truthy(returned.error)

\* C14: in the convert-requesting media-downloader every convert_to_mp3
\* result has a source and a fallback whose action is "download" and whose
\* download has the url and the filename of the source and saveAs = true;
\* every successful result is a "download" or a "convert_to_mp3"; and the
\* runner issues no network request.
C14_ConvertHasDownloadFallback ==
  (comp = MD /\ pc # "idle")
  => /\ requests = <<>>
     /\ pc \in {"collected", "done"}
     /\ (pc = "done" /\ returned.success)
          => returned.action \in {<<"download">>, <<"convert_to_mp3">>}
     /\ (pc = "done" /\ returned.action = <<"convert_to_mp3">>)
          => /\ returned.source # <<>>
             /\ returned.fallback # <<>>
             /\ returned.fallback[1].action = <<"download">>
             /\ returned.fallback[1].download # <<>>
             /\ returned.fallback[1].download[1].url = returned.source[1].url
             /\ returned.fallback[1].download[1].filename = returned.source[1].filename
             /\ returned.fallback[1].download[1].saveAs = TRUE

\* Run of the convert-requesting media-downloader on what was collected
\* from a .mp4 URL asked for a conversion
C14_Witness ==
  /\ comp = MD
  /\ pc = "done"
  /\ RoundTrip
  /\ hostUrl = s_https \o <<"e","x","a","m","p","l","e",".","c","o","m","/","c","l","i","p",".","m","p","4">>
  /\ returned.action = <<"convert_to_mp3">>
  /\ returned.source[1].url = hostUrl
  /\ returned.fallback[1].download[1].url = hostUrl

\* the places of streamingData.formats that hold a combined format that
\* survives the signature filter
SurvivingCombined ==
  {k \in DOMAIN CombinedRaw :
     Truthy(CombinedRaw[k].url) /\ ~SignatureBearing(CombinedRaw[k].url)}

\* the places of adaptiveFormats that hold a video-only format that survives
SurvivingVideo ==
  {k \in DOMAIN AdaptiveRaw :
     /\ Truthy(AdaptiveRaw[k].url)
     /\ ~SignatureBearing(AdaptiveRaw[k].url)
     /\ k \notin SurvivingAudio}

\* C15: among the formats that survive the signature filter handleYouTube
\* downloads an audio-only format if there is one, otherwise the first
\* combined format if there is one, otherwise the first surviving format.
C15_AudioThenCombinedThenAny ==
  (ParsedPlayable /\ SurvivingAudio \cup SurvivingCombined \cup SurvivingVideo # {})
  => /\ returned.success
     /\ returned.action = <<"download">>
     /\ returned.download # <<>>
     /\ IF SurvivingAudio # {}
        THEN \E k \in SurvivingAudio : returned.download[1].url = AdaptiveRaw[k].url
        ELSE IF SurvivingCombined # {}
        THEN returned.download[1].url = CombinedRaw[MinOf(SurvivingCombined)].url
        ELSE returned.download[1].url = AdaptiveRaw[MinOf(SurvivingVideo)].url

\* no audio-only format survives, a combined one and a video-only one do,
\* and the combined one is downloaded
C15_Witness ==
  /\ ParsedPlayable
  /\ SurvivingAudio = {}
  /\ SurvivingCombined # {}
  /\ SurvivingVideo # {}
  /\ returned.download[1].url = CombinedRaw[MinOf(SurvivingCombined)].url

\* C16: for every runner and every interleaving of invocations, two Runs that
\* returned, on equal data and with equal responses to their own requests,
\* returned equal results.
C16_EqualDataEqualResult ==
  (pc \in {"done", "threw"} /\ other.pc \in {"done", "threw"}
   /\ runArg = other.runArg /\ responses = other.responses)
    => (pc = other.pc /\ returned = other.returned)

\* a step of a Run: every step but "Get Data"
RunStep == ~(pc = "idle" /\ pc' = "collected")

Stem(name) ==
  LET dots == {i \in 1..Len(name) : name[i] = "."}
  IN IF dots = {} THEN name ELSE SubSeq(name, 1, MaxOf(dots) - 1)

\* C18: in the convert-requesting media-downloader, for a direct audio or
\* video URL accepted by DataCollector, the convert_to_mp3 result of Run has
\* an outputFilename that ends in '.mp3' and is the source filename with only
\* its final extension replaced.
C18_OutputFilenameIsMp3 ==
  (comp = MD /\ pc = "done" /\ RoundTrip
   /\ returned.action = <<"convert_to_mp3">>)
    => /\ endsWith(returned.outputFilename, s_dot_mp3)
       /\ returned.outputFilename = Stem(collected.candidates[1].filename) \o s_dot_mp3

\* the response of co.wuk.sh gives no download URL
FallbackFailed(resp) ==
  \/ resp.rejects
  \/ ~resp.ok
  \/ resp.bodyFails
  \/ resp.json.status = <<"error">>
  \/ ~Truthy(resp.json.url)

\* C19: in youtube-audio-downloader every result with success=true, from
\* the primary or from the fallback API, is a "download" action with
\* saveAs=true, a non-empty download.url and a download.filename that ends in
\* '.mp3' whatever its letter case; and when both APIs fail the result has
\* success=false and its error reports the failure of the primary request.
C19_SuccessIsMp3Download ==
  (comp = YA /\ pc = "done") =>
    /\ returned.success =>
         /\ returned.action = <<"download">>
         /\ Len(returned.download) = 1
         /\ returned.download[1].saveAs = TRUE
         /\ Truthy(returned.download[1].url)
         /\ Len(returned.download[1].url) > 0
         /\ endsWith(toLowerCase(returned.download[1].filename), s_dot_mp3)
    /\ (Len(responses) = 2 /\ FallbackFailed(responses[2])) =>
         /\ ~returned.success
         /\ Len(caught) >= 1
         /\ returned.error = <<"Failed to get download URL: ">> \o caught[1]
                               \o <<". The video may be unavailable or protected.">>

\* the primary API answered with a file name that has no extension, and the
\* download was returned
C19_Witness ==
  /\ comp = YA
  /\ pc = "done"
  /\ Len(responses) = 1
  /\ responses[1].json.filename = <<"s","o","n","g">>
  /\ returned.success
  /\ returned.download[1].filename = <<"s","o","n","g",".","m","p","3">>

====
